---------------------------- MODULE Spec2Model ----------------------------
(***************************************************************************)
(* A model of SpeechWave's push-to-talk core:                              *)
(*   - HotkeyManager   (src/src/core/hotkey_manager.py)                    *)
(*   - AudioRecorder   (src/src/core/audio_recorder.py)                    *)
(*   - WhisperTranscriber (src/src/whisper_transcriber.py)                 *)
(*   - SpeechWaveApp   (src/src/app.py), the session orchestrator          *)
(* Three specifications share the variables:                               *)
(*   SpecHotkey   : key events delivered to a started hotkey engine        *)
(*   SpecRecorder : client threads calling the recorder directly           *)
(*   Spec         : the whole application (hook, workers, shutdown)        *)
(***************************************************************************)
EXTENDS Integers, Sequences, FiniteSets, TLC

(***************************************************************************)
(* Bounds of the model.                                                    *)
(***************************************************************************)
MaxPending == 2      \* callback threads dispatched and not yet run, per kind
MaxIntervals == 3    \* SpecHotkey: intervals during which the combination is held
MaxRecordings == 2   \* Spec: recordings claimed by the press handler
MaxFrames == 2       \* chunks the audio callback delivers to one session
MaxCalls == 2        \* SpecRecorder: calls each client thread makes
MaxOps == 3          \* SpecTranscriber: calls each caller thread makes
MaxEngineOps == 4    \* SpecEngine: calls the API thread makes
MaxSettingsOps == 3  \* SpecSettings: calls each thread makes

NoStream == 0        \* self._stream is None
NoFile == 0          \* temp_path / temp_audio_file is None
NoThread == 0        \* the recorder lock is free

VARIABLES
  \* ---- HotkeyManager ----
  callbacks,       \* _callbacks: hotkey_str -> [press, release] (TRUE: a callable, FALSE: None)
  hotkeyParts,     \* _hotkey_parts: hotkey_str -> set of normalized key names
  hotkeyStates,    \* _hotkey_states: hotkey_str -> is_active
  pressedKeys,     \* _pressed_keys
  hooked,          \* _hooked
  pendingPress,    \* threads started with target=press_callback that have not run yet
  pendingRelease,  \* threads started with target=release_callback that have not run yet
  \* ---- HotkeyManager: the hook thread and the thread calling the API (SpecEngine) ----
  inflight,        \* the event the hook thread is processing: << >> or <<name, type>>
  nHooks,          \* subscriptions installed with keyboard.hook and not removed
  recordHotkeyStr, \* _record_hotkey_str
  engPc,           \* position of the API thread inside stop() / update_record_hotkey()
  engOp,           \* the API call made last
  engRet,          \* what it returned ("none" while it runs)
  engArg,          \* the hotkey string it was given
  engOld,          \* update_record_hotkey: old_hotkey_str and the callbacks read for it
  engOps,          \* API calls made
  \* ---- history of the key events (SpecHotkey) ----
  heldNames,       \* key names whose latest delivered event is a key-down
  intervals,       \* number of maximal intervals, so far, in which the combination is held
  nActivate,       \* press callbacks dispatched for the combination
  nDeactivate,     \* release callbacks dispatched for the combination
  lastEvent,       \* what the event delivered last was to the pressed set and the combination
  lastEdge,        \* SpecEngine: for each hotkey string, the edge detected last
  dispatchedNow,   \* SpecEngine: the strings a callback thread was started for by the latest event
  \* ---- history of the audio subsystem (SpecRecorder) ----
  fed,             \* chunks delivered to the callback while the current session was active
  cbSignal,        \* what the callback last returned for the current stream ("none" before any)
  \* ---- AudioRecorder ----
  recRecording,    \* AudioRecorder._recording
  stream,          \* AudioRecorder._stream (NoStream or the handle)
  pyaudio,         \* AudioRecorder._pyaudio is not None
  frames,          \* AudioRecorder._frames
  recLock,         \* AudioRecorder._lock: NoThread or the thread inside start_recording
  nextStream,      \* the handle the next pyaudio.open returns
  openStreams,     \* device streams opened and not closed (the audio subsystem's view)
  files,           \* temporary files on disk: file id -> frames written
  nextFile,        \* the name the next NamedTemporaryFile gets
  \* ---- WhisperTranscriber ----
  model,           \* self.model is not None
  loadAttempted,   \* self._load_attempted
  \* ---- Settings (SpecSettings) ----
  settingsLock,    \* the thread holding Settings._lock, NoThread when free
  settingsVal,     \* self._settings["hotkey"]["record"]
  settingsDefault, \* DEFAULT_SETTINGS["hotkey"]["record"]
  settingsFile,    \* the value in settings.json
  setPc,           \* position of each thread inside Settings.reset()
  setOps,          \* calls of the Settings API each thread has made
  \* ---- SpeechWaveApp ----
  appRecording,    \* SpeechWaveApp._recording (RecordingIntent)
  startPc,         \* _start_recording workers
  stopPc,          \* _stop_and_process_recording workers
  stopFrames,      \* frames_to_save of each stop worker's stop_recording call
  stopRet,         \* temp_audio_file of each stop worker
  trPc,            \* _transcribe_thread of each stop worker
  insertCalls,     \* insert_text calls made for each stop worker's recording
  cleanupCalls,    \* _cleanup_temp_file calls made with the path of each stop worker's recording
  outcome,         \* how each stop worker's pipeline ended (its last log line)
  nStart,          \* start workers dispatched
  nStop,           \* stop workers dispatched
  sdPc,            \* position of shutdown()
  sdFrames,        \* frames_to_save of shutdown's stop_recording call
  sdRet,           \* audio_file of shutdown
  sdIntent,        \* RecordingIntent when shutdown() was triggered
  ignored,         \* the signals a handler has ignored so far ("press", "release")
  \* ---- recorder client threads (SpecRecorder) ----
  cliPc,           \* position of each client thread
  cliCalls,        \* calls the client has made
  cliOp,           \* the call the client made last: "start", "stop" (of an active capture), "stop_idle"
  cliStartRet,     \* outcome of the client's last start_recording
  cliFrames,       \* frames_to_save of the client's stop_recording
  cliPath,         \* temp_path of the client's stop_recording
  cliStream,       \* the stream the client's stop_recording found open
  \* ---- transcriber caller threads (SpecTranscriber) ----
  trcPc,           \* position of each caller thread in transcribe / _transcribe_thread
  trcOps,          \* calls the caller has made
  trcOp,           \* the call the caller made last ("transcribe" or "unload")
  nCb,             \* invocations of onResult made for the caller's last transcribe call
  cbArg,           \* the argument of the last of them ("None", "empty", "text")
  nLoads           \* WhisperModel(...) constructions attempted since the last unload_model() call

engineVars == <<inflight, nHooks, recordHotkeyStr, engPc, engOp, engRet, engArg, engOld, engOps>>
hotkeyVars == <<callbacks, hotkeyParts, hotkeyStates, pressedKeys, hooked,
                pendingPress, pendingRelease, engineVars>>
historyVars == <<heldNames, intervals, nActivate, nDeactivate, lastEvent, lastEdge,
                 dispatchedNow, fed, cbSignal>>
recVars == <<recRecording, stream, pyaudio, frames, recLock, nextStream, openStreams>>
fileVars == <<files, nextFile>>
settingsVars == <<settingsLock, settingsVal, settingsDefault, settingsFile, setPc, setOps>>
modelVars == <<model, loadAttempted, settingsVars>>
appVars == <<appRecording, startPc, stopPc, stopFrames, stopRet, trPc, insertCalls, cleanupCalls, outcome,
             nStart, nStop, sdPc, sdFrames, sdRet, sdIntent, ignored>>
callerVars == <<trcPc, trcOps, trcOp, nCb, cbArg, nLoads>>
cliVars == <<cliPc, cliCalls, cliOp, cliStartRet, cliFrames, cliPath, cliStream, callerVars>>
vars == <<hotkeyVars, historyVars, recVars, fileVars, modelVars, appVars, cliVars>>

(***************************************************************************)
(* HotkeyManager                                                           *)
(***************************************************************************)

\* Names the hook delivers in event.name.
RawKeys == {"ctrl", "left shift", "right shift", "r", "x", "unknown"}

\* keyboard.normalize_name raises for a name it does not know.
KnownKey(raw) == raw # "unknown"

\* _normalize_key_name: aliases of a key map to one name ('left alt' -> 'alt').
NormalizeKeyName(raw) ==
  CASE raw = "left alt" -> "alt"
    [] raw = "right alt" -> "alt"
    [] raw = "left shift" -> "shift"
    [] raw = "right shift" -> "shift"
    [] OTHER -> raw

\* The strings handed to register_hotkey, unregister_hotkey and
\* update_record_hotkey.
HotkeyStrs == {"ctrl+shift+r", "ctrl+x", "", "+"}

\* hotkey_str.split('+'), each part stripped.
SplitHotkey(hotkeyStr) ==
  CASE hotkeyStr = "ctrl+shift+r" -> {"ctrl", "shift", "r"}
    [] hotkeyStr = "alt+v" -> {"alt", "v"}
    [] hotkeyStr = "ctrl+x" -> {"ctrl", "x"}
    [] hotkeyStr = "+" -> {""}
    [] hotkeyStr = "ctrl+" -> {"ctrl", ""}
    [] OTHER -> {hotkeyStr}

\* A mutant of ParseRaises: an empty part is normalized to itself.
ParseRaisesNever(hotkeyStr) == FALSE

\* keyboard.normalize_name raises ValueError for an empty name, so the set
\* comprehension of register_hotkey raises when a part is empty.
ParseRaises(hotkeyStr) == "" \in SplitHotkey(hotkeyStr)

\* The set of normalized parts register_hotkey stores.
ParseHotkey(hotkeyStr) == {NormalizeKeyName(p) : p \in SplitHotkey(hotkeyStr)}

\* self._hotkey_states.get(hotkey_str, False)
StateOf(h) == IF h \in DOMAIN hotkeyStates THEN hotkeyStates[h] ELSE FALSE

HasPress(h) == h \in DOMAIN callbacks /\ callbacks[h].press
HasRelease(h) == h \in DOMAIN callbacks /\ callbacks[h].release

NewPressed(raw, ty) ==
  IF ty = "down" THEN pressedKeys \cup {NormalizeKeyName(raw)}
  ELSE pressedKeys \ {NormalizeKeyName(raw)}

\* A mutant of Activated: the current state of the registration is not looked at.
ActivatedWhateverState(pressed) ==
  {h \in DOMAIN hotkeyParts : hotkeyParts[h] \subseteq pressed}

Activated(pressed) ==
  {h \in DOMAIN hotkeyParts : hotkeyParts[h] \subseteq pressed /\ ~StateOf(h)}

Deactivated(pressed) ==
  {h \in DOMAIN hotkeyParts : ~(hotkeyParts[h] \subseteq pressed) /\ StateOf(h)}

\* A mutant of _keyboard_event_callback: the press callback is dispatched on
\* every event that leaves all parts pressed, whatever the current state.
KeyboardEventCallbackLevel(raw, ty) ==
  /\ hooked
  /\ IF ~KnownKey(raw)
     THEN UNCHANGED hotkeyVars
     ELSE LET pressed == NewPressed(raw, ty)
              act == {h \in DOMAIN hotkeyParts : hotkeyParts[h] \subseteq pressed}
              deact == Deactivated(pressed)
          IN /\ pressedKeys' = pressed
             /\ hotkeyStates' =
                  [h \in DOMAIN hotkeyStates \cup act \cup deact |->
                     IF h \in act THEN TRUE
                     ELSE IF h \in deact THEN FALSE ELSE hotkeyStates[h]]
             /\ pendingPress' = pendingPress + Cardinality({h \in act : HasPress(h)})
             /\ pendingRelease' = pendingRelease + Cardinality({h \in deact : HasRelease(h)})
             /\ pendingPress' <= MaxPending
             /\ pendingRelease' <= MaxPending
             /\ UNCHANGED <<callbacks, hotkeyParts, hooked, engineVars>>

\* The block _keyboard_event_callback runs under self._lock: the pressed set is
\* updated, then every registration whose state changes is flipped and its
\* callback is started on a thread of its own.
LockedUpdate(raw, ty) ==
  LET pressed == NewPressed(raw, ty)
      act == Activated(pressed)
      deact == Deactivated(pressed)
  IN /\ pressedKeys' = pressed
     /\ hotkeyStates' =
          [h \in DOMAIN hotkeyStates \cup act \cup deact |->
             IF h \in act THEN TRUE
             ELSE IF h \in deact THEN FALSE ELSE hotkeyStates[h]]
     /\ pendingPress' = pendingPress + Cardinality({h \in act : HasPress(h)})
     /\ pendingRelease' = pendingRelease + Cardinality({h \in deact : HasRelease(h)})
     /\ pendingPress' <= MaxPending
     /\ pendingRelease' <= MaxPending
     /\ UNCHANGED <<callbacks, hotkeyParts>>

\* _keyboard_event_callback(event), event.name = raw, event.event_type = ty.
KeyboardEventCallback(raw, ty) ==
  /\ hooked
  /\ IF ~KnownKey(raw)
     THEN UNCHANGED hotkeyVars
     ELSE /\ LockedUpdate(raw, ty)
          /\ UNCHANGED <<hooked, engineVars>>

\* HotkeyManager.stop()
HotkeyStop ==
  IF ~hooked
  THEN UNCHANGED hotkeyVars
  ELSE /\ hooked' = FALSE
       /\ nHooks' = 0
       /\ pressedKeys' = {}
       /\ hotkeyStates' = [h \in {} |-> FALSE]
       /\ UNCHANGED <<callbacks, hotkeyParts, pendingPress, pendingRelease>>
       /\ UNCHANGED <<inflight, recordHotkeyStr, engPc, engOp, engRet, engArg, engOld, engOps>>


\* A callback thread of the hotkey engine whose target is not modelled further
\* (SpecHotkey): the thread runs and ends.
CallbackThreadRuns ==
  /\ \/ /\ pendingPress > 0
        /\ pendingPress' = pendingPress - 1
        /\ UNCHANGED pendingRelease
     \/ /\ pendingRelease > 0
        /\ pendingRelease' = pendingRelease - 1
        /\ UNCHANGED pendingPress
  /\ UNCHANGED <<callbacks, hotkeyParts, hotkeyStates, pressedKeys, hooked, engineVars>>

(***************************************************************************)
(* AudioRecorder                                                           *)
(***************************************************************************)

\* _cleanup_internal(): stream closed and dropped, PyAudio terminated and
\* dropped, flags reset.
CleanupInternal ==
  /\ stream' = NoStream
  /\ openStreams' = openStreams \ {stream}
  /\ pyaudio' = FALSE
  /\ recRecording' = FALSE
  /\ frames' = << >>

\* start_recording: `if self._recording: return False`.
StartRejected == recRecording

\* A mutant of the entry of start_recording: the flag is checked under the lock
\* but the lock is released before the device is opened.
StartCheckReleases(t) ==
  /\ recLock = NoThread
  /\ recLock' = NoThread
  /\ UNCHANGED <<recRecording, stream, pyaudio, frames, nextStream, openStreams>>

\* start_recording, entry: `with self._lock: if self._recording: return False`.
\* The caller reads recRecording in the same step; the lock stays held by t
\* when the flag is clear.
StartCheck(t) ==
  /\ recLock = NoThread
  /\ recLock' = IF StartRejected THEN NoThread ELSE t
  /\ UNCHANGED <<recRecording, stream, pyaudio, frames, nextStream, openStreams>>

\* A mutant of the failure path of start_recording: no cleanup.
StartOpenNoCleanup(t, openOk) ==
  /\ recLock' = NoThread
  /\ IF openOk
     THEN /\ pyaudio' = TRUE
          /\ frames' = << >>
          /\ stream' = nextStream
          /\ nextStream' = nextStream + 1
          /\ openStreams' = openStreams \cup {nextStream}
          /\ recRecording' = TRUE
     ELSE /\ pyaudio' = TRUE
          /\ frames' = << >>
          /\ UNCHANGED <<stream, nextStream, openStreams, recRecording>>

\* start_recording, the try block under the lock: PyAudio created if needed,
\* frames cleared, stream opened, flag set; on an exception _cleanup_internal.
\* Returns openOk.
StartOpen(t, openOk) ==
  /\ recLock' = NoThread
  /\ IF openOk
     THEN /\ pyaudio' = TRUE
          /\ frames' = << >>
          /\ stream' = nextStream
          /\ nextStream' = nextStream + 1
          /\ openStreams' = openStreams \cup {nextStream}
          /\ recRecording' = TRUE
     ELSE /\ CleanupInternal
          /\ UNCHANGED nextStream

\* A mutant of stop_recording: the buffer is cleared before it is copied.
StopFramesToSaveAfterClear(closeOk) == << >>

\* frames_to_save after the locked part of stop_recording.
StopFramesToSave(closeOk) == IF recRecording /\ closeOk THEN frames ELSE << >>

\* stop_recording, the part under the lock. Not recording: return (None, None).
\* Otherwise the flag is cleared, the stream stopped and closed, the frames
\* copied out and cleared; closeOk = FALSE: stop_stream()/close() raises, the
\* handle and the frames stay for the finally block.
StopLocked(closeOk) ==
  /\ recLock = NoThread
  /\ IF ~recRecording
     THEN UNCHANGED recVars
     ELSE IF closeOk
     THEN /\ recRecording' = FALSE
          /\ stream' = NoStream
          /\ openStreams' = openStreams \ {stream}
          /\ frames' = << >>
          /\ UNCHANGED <<pyaudio, recLock, nextStream>>
     ELSE /\ recRecording' = FALSE
          /\ UNCHANGED <<stream, openStreams, frames, pyaudio, recLock, nextStream>>

\* A mutant of stop_recording: the `if not frames_to_save` test is missing.
FinalizePathNoEmptyTest(toSave, encodeOk) == IF ~encodeOk THEN NoFile ELSE nextFile

\* The path stop_recording returns after processing the frames outside the
\* lock: NoFile for no frames or a failed save, else the new file's name.
FinalizePath(toSave, encodeOk) ==
  IF toSave = << >> \/ ~encodeOk THEN NoFile ELSE nextFile

\* stop_recording outside the lock: the frames are written to a new
\* NamedTemporaryFile; a file of a failed save is unlinked again.
Finalize(toSave, encodeOk) ==
  IF toSave = << >> \/ ~encodeOk
  THEN UNCHANGED fileVars
  ELSE /\ files' = [f \in DOMAIN files \cup {nextFile} |->
                      IF f = nextFile THEN toSave ELSE files[f]]
       /\ nextFile' = nextFile + 1

\* stop_recording, finally: `with self._lock: self._cleanup_internal()`.
StopFinally ==
  /\ recLock = NoThread
  /\ CleanupInternal
  /\ UNCHANGED <<recLock, nextStream>>

\* What _audio_callback returns to the audio subsystem.
CallbackReturn == IF recRecording THEN "paContinue" ELSE "paComplete"

\* A mutant of _audio_callback: the chunk is appended whatever the flag.
AudioCallbackNoFlagTest(chunk) ==
  /\ recLock = NoThread
  /\ stream \in openStreams
  /\ Len(frames) < MaxFrames
  /\ frames' = Append(frames, chunk)
  /\ UNCHANGED <<recRecording, stream, pyaudio, recLock, nextStream, openStreams>>

\* _audio_callback(in_data): delivered by the audio subsystem for an open stream.
AudioCallback(chunk) ==
  /\ recLock = NoThread
  /\ stream \in openStreams
  /\ Len(frames) < MaxFrames
  /\ IF recRecording
     THEN frames' = Append(frames, chunk)
     ELSE UNCHANGED frames
  /\ UNCHANGED <<recRecording, stream, pyaudio, recLock, nextStream, openStreams>>

\* A mutant of RemoveFile: every temporary file is removed, not only the one
\* at the path.
RemoveEveryFile(path) == [f \in {} |-> << >>]

\* os.remove(file_path) if it exists (_cleanup_temp_file).
RemoveFile(path) == [f \in DOMAIN files \ {path} |-> files[f]]

(***************************************************************************)
(* WhisperTranscriber                                                      *)
(***************************************************************************)

\* unload_model()
UnloadModel ==
  IF model
  THEN /\ model' = FALSE
       /\ loadAttempted' = FALSE
       /\ UNCHANGED settingsVars
  ELSE UNCHANGED modelVars

\* A mutant of _ensure_model_loaded: the `if self._load_attempted` test is missing.
AttemptsLoadIgnoresFlag == ~model

\* _ensure_model_loaded() goes on to construct WhisperModel(...): the model is
\* not loaded and no attempt was made before.
AttemptsLoad == ~model /\ ~loadAttempted

\* What _ensure_model_loaded() returns; loadOk: WhisperModel(...) does not raise.
EnsureResult(loadOk) == model \/ (AttemptsLoad /\ loadOk)

\* _ensure_model_loaded()
EnsureModelLoaded(loadOk) ==
  IF ~AttemptsLoad
  THEN UNCHANGED modelVars
  ELSE /\ loadAttempted' = TRUE
       /\ model' = loadOk
       /\ UNCHANGED settingsVars

(***************************************************************************)
(* Initial values, per component.                                          *)
(***************************************************************************)

\* HotkeyManager after register_hotkey(hotkeyStr, on_press, on_release) and start().
InitHotkeyEngine(hotkeyStr) ==
  /\ callbacks = [h \in {hotkeyStr} |-> [press |-> TRUE, release |-> TRUE]]
  /\ hotkeyParts = [h \in {hotkeyStr} |-> ParseHotkey(hotkeyStr)]
  /\ hotkeyStates = [h \in {hotkeyStr} |-> FALSE]
  /\ pressedKeys = {}
  /\ hooked = TRUE
  /\ pendingPress = 0
  /\ pendingRelease = 0
  /\ inflight = << >>
  /\ nHooks = 1
  /\ recordHotkeyStr = hotkeyStr
  /\ engPc = "idle"
  /\ engOp = "none"
  /\ engRet = "none"
  /\ engArg = ""
  /\ engOld = [str |-> "", found |-> FALSE, press |-> FALSE, release |-> FALSE]
  /\ engOps = 0

InitHistory ==
  /\ heldNames = {}
  /\ intervals = 0
  /\ nActivate = 0
  /\ nDeactivate = 0
  /\ lastEvent = "none"
  /\ lastEdge = [h \in HotkeyStrs |-> "none"]
  /\ dispatchedNow = {}
  /\ fed = << >>
  /\ cbSignal = "none"

\* AudioRecorder.__init__; no temporary file exists.
InitRecorder ==
  /\ recRecording = FALSE
  /\ stream = NoStream
  /\ pyaudio = FALSE
  /\ frames = << >>
  /\ recLock = NoThread
  /\ nextStream = 1
  /\ openStreams = {}
  /\ files = [f \in {} |-> << >>]
  /\ nextFile = 1

\* The threads that call the Settings API.
SettingsThreads == 1 .. 2

\* Settings.__init__ at import: the defaults are copied (the nested
\* dictionaries are shared with DEFAULT_SETTINGS) and load() finds no file and
\* saves the defaults.
InitSettings ==
  /\ settingsLock = NoThread
  /\ settingsVal = "alt+v"
  /\ settingsDefault = "alt+v"
  /\ settingsFile = "alt+v"
  /\ setPc = [t \in SettingsThreads |-> "idle"]
  /\ setOps = [t \in SettingsThreads |-> 0]

\* WhisperTranscriber.__init__, with the settings module imported.
InitTranscriber ==
  /\ model = FALSE
  /\ loadAttempted = FALSE
  /\ InitSettings

Recordings == 1 .. MaxRecordings

\* SpeechWaveApp.__init__: no worker exists.
InitApp ==
  /\ appRecording = FALSE
  /\ startPc = [n \in Recordings |-> "none"]
  /\ stopPc = [n \in Recordings |-> "none"]
  /\ stopFrames = [n \in Recordings |-> << >>]
  /\ stopRet = [n \in Recordings |-> NoFile]
  /\ trPc = [n \in Recordings |-> "none"]
  /\ insertCalls = [n \in Recordings |-> 0]
  /\ cleanupCalls = [n \in Recordings |-> 0]
  /\ outcome = [n \in Recordings |-> "none"]
  /\ nStart = 0
  /\ nStop = 0
  /\ sdPc = "idle"
  /\ sdFrames = << >>
  /\ sdRet = NoFile
  /\ sdIntent = FALSE
  /\ ignored = {}

Clients == 1 .. 2

InitClients ==
  /\ cliPc = [t \in Clients |-> "idle"]
  /\ cliCalls = [t \in Clients |-> 0]
  /\ cliOp = [t \in Clients |-> "none"]
  /\ cliStartRet = [t \in Clients |-> "none"]
  /\ cliFrames = [t \in Clients |-> << >>]
  /\ cliPath = [t \in Clients |-> NoFile]
  /\ cliStream = [t \in Clients |-> NoStream]

Callers == 1 .. 2

\* No caller thread has called the transcriber.
InitCallers ==
  /\ trcPc = [c \in Callers |-> "idle"]
  /\ trcOps = [c \in Callers |-> 0]
  /\ trcOp = [c \in Callers |-> "none"]
  /\ nCb = [c \in Callers |-> 0]
  /\ cbArg = [c \in Callers |-> "none"]
  /\ nLoads = 0

(***************************************************************************)
(* SpecHotkey: key events delivered to a started engine on which           *)
(* "ctrl+shift+r" is registered with both callbacks.                       *)
(***************************************************************************)

HotkeyCombo == "ctrl+shift+r"

\* The key names of the combination, computed from the string alone.
ComboKeys == ParseHotkey(HotkeyCombo)

\* heldNames after the event: a name is held from a key-down event carrying it
\* until the next key-up event carrying it.
HeldAfter(raw, ty) ==
  IF ~KnownKey(raw) THEN heldNames
  ELSE IF ty = "down" THEN heldNames \cup {NormalizeKeyName(raw)}
  ELSE heldNames \ {NormalizeKeyName(raw)}

\* What the event is to the engine when it arrives: a name the engine does not
\* know, a key-down for a key already in the pressed set, a key-up for a key
\* not in it, a key outside the combination, or a key of the combination
\* going down or up.
EventKind(raw, ty) ==
  IF ~KnownKey(raw) THEN "unknown"
  ELSE IF ty = "down" /\ NormalizeKeyName(raw) \in pressedKeys THEN "repeat"
  ELSE IF ty = "up" /\ NormalizeKeyName(raw) \notin pressedKeys THEN "stray"
  ELSE IF NormalizeKeyName(raw) \notin ComboKeys THEN "outside"
  ELSE "inside"

\* The hook delivers one event; the history records what was held and what
\* the engine dispatched.
HotkeyEvent(raw, ty) ==
  LET rise == ~(ComboKeys \subseteq heldNames) /\ ComboKeys \subseteq HeldAfter(raw, ty)
  IN /\ rise => intervals < MaxIntervals
     /\ KeyboardEventCallback(raw, ty)
     /\ heldNames' = HeldAfter(raw, ty)
     /\ intervals' = intervals + (IF rise THEN 1 ELSE 0)
     /\ nActivate' = nActivate + (pendingPress' - pendingPress)
     /\ nDeactivate' = nDeactivate + (pendingRelease' - pendingRelease)
     /\ lastEvent' = EventKind(raw, ty)
     /\ UNCHANGED <<lastEdge, dispatchedNow, fed, cbSignal>>
     /\ UNCHANGED <<recVars, fileVars, modelVars, appVars, cliVars>>

HotkeyCallbackRuns ==
  /\ CallbackThreadRuns
  /\ UNCHANGED <<historyVars, recVars, fileVars, modelVars, appVars, cliVars>>

InitHotkey ==
  /\ InitHotkeyEngine(HotkeyCombo)
  /\ InitHistory
  /\ InitRecorder
  /\ InitTranscriber
  /\ InitApp
  /\ InitClients
  /\ InitCallers

NextHotkey ==
  \/ \E raw \in RawKeys, ty \in {"down", "up"} : HotkeyEvent(raw, ty)
  \/ HotkeyCallbackRuns

SpecHotkey == InitHotkey /\ [][NextHotkey]_vars

\* C1: over every sequence of key-down/key-up events delivered to the started
\* engine, the press callback of the combination has been dispatched exactly
\* once for each maximal interval in which all its key names are held (so far
\* `intervals` of them), and the release callback exactly once for each such
\* interval that has ended, whatever the order of the presses and releases.
C1_ActivateOncePerInterval ==
  /\ nActivate = intervals
  /\ nDeactivate = intervals - (IF ComboKeys \subseteq heldNames THEN 1 ELSE 0)

\* C1 witness: the combination was held, released and is held again: two
\* activations and one deactivation have been dispatched.
C1_Witness ==
  /\ nActivate = 2
  /\ nDeactivate = 1
  /\ ComboKeys \subseteq heldNames

(***************************************************************************)
(* SpecRecorder: two client threads call start_recording and               *)
(* stop_recording on one AudioRecorder while the audio subsystem delivers  *)
(* chunks.                                                                 *)
(***************************************************************************)

Chunks == {1, 2}

\* start_recording called by t: the lock is taken and the flag tested.
ClientStartCheck(t) ==
  /\ cliPc[t] = "idle"
  /\ cliCalls[t] < MaxCalls
  /\ StartCheck(t)
  /\ cliCalls' = [cliCalls EXCEPT ![t] = @ + 1]
  /\ cliOp' = [cliOp EXCEPT ![t] = "start"]
  /\ IF StartRejected
     THEN /\ cliStartRet' = [cliStartRet EXCEPT ![t] = "rejected"]
          /\ UNCHANGED cliPc
     ELSE /\ cliPc' = [cliPc EXCEPT ![t] = "start_open"]
          /\ cliStartRet' = [cliStartRet EXCEPT ![t] = "none"]
  /\ UNCHANGED <<cliFrames, cliPath>>
  /\ UNCHANGED <<hotkeyVars, historyVars, fileVars, modelVars, appVars>>
  /\ UNCHANGED <<cliStream, callerVars>>

\* start_recording by t, the try block; the call returns.
ClientStartOpen(t) ==
  /\ cliPc[t] = "start_open"
  /\ \E openOk \in BOOLEAN :
       /\ StartOpen(t, openOk)
       /\ cliStartRet' = [cliStartRet EXCEPT ![t] = IF openOk THEN "true" ELSE "failed"]
       /\ fed' = IF openOk THEN << >> ELSE fed
       /\ cbSignal' = IF openOk THEN "none" ELSE cbSignal
  /\ cliPc' = [cliPc EXCEPT ![t] = "idle"]
  /\ UNCHANGED <<cliCalls, cliOp, cliFrames, cliPath>>
  /\ UNCHANGED <<heldNames, intervals, nActivate, nDeactivate, lastEvent, lastEdge,
                 dispatchedNow>>
  /\ UNCHANGED <<hotkeyVars, fileVars, modelVars, appVars>>
  /\ UNCHANGED <<cliStream, callerVars>>

\* stop_recording called by t, the part under the lock.
ClientStopLocked(t) ==
  /\ cliPc[t] = "idle"
  /\ cliCalls[t] < MaxCalls
  /\ \E closeOk \in BOOLEAN :
       /\ StopLocked(closeOk)
       /\ cliFrames' = [cliFrames EXCEPT ![t] = StopFramesToSave(closeOk)]
       /\ cliPc' = [cliPc EXCEPT ![t] =
                      IF recRecording /\ closeOk THEN "stop_finalize" ELSE "stop_finally"]
  /\ cliCalls' = [cliCalls EXCEPT ![t] = @ + 1]
  /\ cliOp' = [cliOp EXCEPT ![t] = IF recRecording THEN "stop" ELSE "stop_idle"]
  /\ cliPath' = [cliPath EXCEPT ![t] = NoFile]
  /\ cliStream' = [cliStream EXCEPT ![t] = IF recRecording THEN stream ELSE NoStream]
  /\ UNCHANGED cliStartRet
  /\ UNCHANGED <<hotkeyVars, historyVars, fileVars, modelVars, appVars>>
  /\ UNCHANGED callerVars

\* stop_recording by t, the frames processed outside the lock.
ClientFinalize(t) ==
  /\ cliPc[t] = "stop_finalize"
  /\ \E encodeOk \in BOOLEAN :
       /\ Finalize(cliFrames[t], encodeOk)
       /\ cliPath' = [cliPath EXCEPT ![t] = FinalizePath(cliFrames[t], encodeOk)]
  /\ cliPc' = [cliPc EXCEPT ![t] = "stop_finally"]
  /\ UNCHANGED <<cliCalls, cliOp, cliStartRet, cliFrames>>
  /\ UNCHANGED <<hotkeyVars, historyVars, recVars, modelVars, appVars>>
  /\ UNCHANGED <<cliStream, callerVars>>

\* stop_recording by t, the finally block; the call returns.
ClientStopFinally(t) ==
  /\ cliPc[t] = "stop_finally"
  /\ StopFinally
  /\ cliPc' = [cliPc EXCEPT ![t] = "idle"]
  /\ UNCHANGED <<cliCalls, cliOp, cliStartRet, cliFrames, cliPath>>
  /\ UNCHANGED <<hotkeyVars, historyVars, fileVars, modelVars, appVars>>
  /\ UNCHANGED <<cliStream, callerVars>>

\* The audio subsystem delivers a chunk to the callback of the open stream.
RecorderAudioCallback ==
  /\ \E chunk \in Chunks :
       /\ AudioCallback(chunk)
       /\ fed' = IF recRecording THEN Append(fed, chunk) ELSE fed
       /\ cbSignal' = CallbackReturn
  /\ UNCHANGED <<heldNames, intervals, nActivate, nDeactivate, lastEvent, lastEdge,
                 dispatchedNow>>
  /\ UNCHANGED <<hotkeyVars, fileVars, modelVars, appVars, cliVars>>

InitRecorderSpec ==
  /\ InitHotkeyEngine("alt+v")
  /\ InitHistory
  /\ InitRecorder
  /\ InitTranscriber
  /\ InitApp
  /\ InitClients
  /\ InitCallers

NextRecorder ==
  \/ \E t \in Clients : ClientStartCheck(t)
  \/ \E t \in Clients : ClientStartOpen(t)
  \/ \E t \in Clients : ClientStopLocked(t)
  \/ \E t \in Clients : ClientFinalize(t)
  \/ \E t \in Clients : ClientStopFinally(t)
  \/ RecorderAudioCallback

SpecRecorder == InitRecorderSpec /\ [][NextRecorder]_vars

\* The step in which client t calls start_recording.
CallsStart(t) == cliCalls'[t] # cliCalls[t] /\ cliOp'[t] = "start"

\* C10: a start_recording called while a capture is active returns False and
\* leaves the session as it is (flag, stream handle, frames, device streams);
\* and the test and the setting of the flag are atomic: while one call is
\* between its test and its setting of the flag, the flag stays clear and no
\* other call is between the two, so of two concurrent calls on an idle
\* recorder the first succeeds when the device opens (it alone opens a
\* stream) and the second is rejected.
C10_StartWhileActiveRejected ==
  /\ [](\A t \in Clients : cliPc[t] = "start_open" => ~recRecording)
  /\ [](Cardinality({t \in Clients : cliPc[t] = "start_open"}) <= 1)
  /\ [][\A t \in Clients :
          /\ (CallsStart(t) /\ recRecording) =>
               /\ cliStartRet'[t] = "rejected"
               /\ cliPc'[t] = "idle"
               /\ UNCHANGED <<recRecording, stream, frames, openStreams, pyaudio>>
          /\ (cliPc[t] = "start_open" /\ cliPc'[t] = "idle") =>
               (cliStartRet'[t] = "true" <=> (recRecording' /\ stream' \in openStreams'
                                              /\ stream' \notin openStreams))]_vars

\* C10 witness: one client holds a session with captured frames and the other
\* client's start_recording was rejected.
C10_Witness ==
  \E t1, t2 \in Clients :
    /\ t1 # t2
    /\ cliStartRet[t1] = "true"
    /\ cliStartRet[t2] = "rejected"
    /\ recRecording
    /\ Len(frames) > 0

(***************************************************************************)
(* SpeechWaveApp: the whole application. The hook delivers key events, the *)
(* hotkey engine dispatches the press/release handlers on threads, the     *)
(* handlers dispatch start and stop workers, shutdown() may be triggered   *)
(* at any time. Every thread of the process stops when shutdown() has      *)
(* called sys.exit.                                                        *)
(***************************************************************************)

\* settings.get("hotkey.record"), the default.
RecordHotkey == "alt+v"

\* Names the hook delivers for the keys of the record hotkey.
AppRawKeys == {"left alt", "v"}

\* The process has not exited.
Running == sdPc # "complete"

\* A mutant of AppKeyEvent: the hook thread sets the recording intent itself
\* when it detects the press edge, instead of leaving it to the callback
\* thread.
AppKeyEventInline(raw, ty) ==
  /\ Running
  /\ KeyboardEventCallback(raw, ty)
  /\ appRecording' = (appRecording \/ pendingPress' > pendingPress)
  /\ UNCHANGED <<startPc, stopPc, stopFrames, stopRet, trPc, insertCalls, cleanupCalls, outcome,
                 nStart, nStop, sdPc, sdFrames, sdRet, sdIntent, ignored>>
  /\ UNCHANGED <<historyVars, recVars, fileVars, modelVars, cliVars>>

AppKeyEvent(raw, ty) ==
  /\ Running
  /\ KeyboardEventCallback(raw, ty)
  /\ UNCHANGED <<historyVars, recVars, fileVars, modelVars, appVars, cliVars>>

AppAudioCallback ==
  /\ Running
  /\ AudioCallback(1)
  /\ UNCHANGED <<hotkeyVars, historyVars, fileVars, modelVars, appVars, cliVars>>

\* A mutant of the press handler's test: the intent flag is not consulted.
PressAcceptedIgnoresIntent == ~recRecording

\* _on_record_hotkey_press: `not self._recording and not self._audio_recorder.is_recording()`
PressAccepted == ~appRecording /\ ~recRecording

\* _on_record_hotkey_release: `self._recording and self._audio_recorder.is_recording()`
ReleaseAccepted == appRecording /\ recRecording

\* _on_record_hotkey_press, run by a thread the hotkey engine started; the
\* body runs under _state_lock, is_recording() takes the recorder lock.
OnRecordHotkeyPress ==
  /\ Running
  /\ pendingPress > 0
  /\ appRecording \/ recLock = NoThread
  /\ pendingPress' = pendingPress - 1
  /\ IF PressAccepted
     THEN /\ nStart < MaxRecordings
          /\ appRecording' = TRUE
          /\ nStart' = nStart + 1
          /\ startPc' = [startPc EXCEPT ![nStart + 1] = "check"]
          /\ UNCHANGED ignored
     ELSE /\ ignored' = ignored \cup {"press"}
          /\ UNCHANGED <<appRecording, nStart, startPc>>
  /\ UNCHANGED <<callbacks, hotkeyParts, hotkeyStates, pressedKeys, hooked, pendingRelease,
                 engineVars>>
  /\ UNCHANGED <<stopPc, stopFrames, stopRet, trPc, insertCalls, cleanupCalls, outcome, nStop,
                 sdPc, sdFrames, sdRet, sdIntent>>
  /\ UNCHANGED <<historyVars, recVars, fileVars, modelVars, cliVars>>

\* _on_record_hotkey_release
OnRecordHotkeyRelease ==
  /\ Running
  /\ pendingRelease > 0
  /\ ~appRecording \/ recLock = NoThread
  /\ pendingRelease' = pendingRelease - 1
  /\ IF ReleaseAccepted
     THEN /\ nStop < MaxRecordings
          /\ appRecording' = FALSE
          /\ nStop' = nStop + 1
          /\ stopPc' = [stopPc EXCEPT ![nStop + 1] = "stop"]
          /\ UNCHANGED ignored
     ELSE /\ ignored' = ignored \cup {"release"}
          /\ UNCHANGED <<appRecording, nStop, stopPc>>
  /\ UNCHANGED <<callbacks, hotkeyParts, hotkeyStates, pressedKeys, hooked, pendingPress,
                 engineVars>>
  /\ UNCHANGED <<startPc, stopFrames, stopRet, trPc, insertCalls, cleanupCalls, outcome, nStart,
                 sdPc, sdFrames, sdRet, sdIntent>>
  /\ UNCHANGED <<historyVars, recVars, fileVars, modelVars, cliVars>>

\* The variables of the app a start worker leaves alone.
startFrame == <<stopPc, stopFrames, stopRet, trPc, insertCalls, cleanupCalls, outcome, nStart, nStop,
                sdPc, sdFrames, sdRet, sdIntent, ignored>>

\* _start_recording, worker n: start_recording() is entered.
StartWorkerCheck(n) ==
  /\ Running
  /\ startPc[n] = "check"
  /\ StartCheck(n)
  /\ startPc' = [startPc EXCEPT ![n] = IF StartRejected THEN "revert" ELSE "open"]
  /\ UNCHANGED <<appRecording, startFrame>>
  /\ UNCHANGED <<hotkeyVars, historyVars, fileVars, modelVars, cliVars>>

\* _start_recording, worker n: start_recording() opens the device and returns.
StartWorkerOpen(n) ==
  /\ Running
  /\ startPc[n] = "open"
  /\ \E openOk \in BOOLEAN :
       /\ StartOpen(n, openOk)
       /\ startPc' = [startPc EXCEPT ![n] = IF openOk THEN "started" ELSE "revert"]
  /\ UNCHANGED <<appRecording, startFrame>>
  /\ UNCHANGED <<hotkeyVars, historyVars, fileVars, modelVars, cliVars>>

\* A mutant of the failure branch of _start_recording: the flag is left set.
StartWorkerNoRevert(n) ==
  /\ Running
  /\ startPc[n] = "revert"
  /\ startPc' = [startPc EXCEPT ![n] = "failed"]
  /\ UNCHANGED <<appRecording, startFrame>>
  /\ UNCHANGED <<hotkeyVars, historyVars, recVars, fileVars, modelVars, cliVars>>

\* _start_recording, worker n, `if not success`: the intent flag is reset
\* under _state_lock.
StartWorkerRevert(n) ==
  /\ Running
  /\ startPc[n] = "revert"
  /\ appRecording' = FALSE
  /\ startPc' = [startPc EXCEPT ![n] = "failed"]
  /\ UNCHANGED startFrame
  /\ UNCHANGED <<hotkeyVars, historyVars, recVars, fileVars, modelVars, cliVars>>

\* The variables of the app a stop worker or its transcription thread leaves alone.
stopFrame == <<appRecording, startPc, nStart, nStop, sdPc, sdFrames, sdRet, sdIntent,
               ignored>>

\* _stop_and_process_recording, worker m: stop_recording(), the part under the lock.
StopWorkerStop(m) ==
  /\ Running
  /\ stopPc[m] = "stop"
  /\ \E closeOk \in BOOLEAN :
       /\ StopLocked(closeOk)
       /\ stopFrames' = [stopFrames EXCEPT ![m] = StopFramesToSave(closeOk)]
       /\ stopPc' = [stopPc EXCEPT ![m] =
                       IF recRecording /\ closeOk THEN "finalize" ELSE "finally"]
  /\ UNCHANGED <<stopRet, trPc, insertCalls, cleanupCalls, outcome, stopFrame>>
  /\ UNCHANGED <<hotkeyVars, historyVars, fileVars, modelVars, cliVars>>

\* worker m: stop_recording() processes the frames outside the lock.
StopWorkerFinalize(m) ==
  /\ Running
  /\ stopPc[m] = "finalize"
  /\ \E encodeOk \in BOOLEAN :
       /\ Finalize(stopFrames[m], encodeOk)
       /\ stopRet' = [stopRet EXCEPT ![m] = FinalizePath(stopFrames[m], encodeOk)]
  /\ stopPc' = [stopPc EXCEPT ![m] = "finally"]
  /\ UNCHANGED <<stopFrames, trPc, insertCalls, cleanupCalls, outcome, stopFrame>>
  /\ UNCHANGED <<hotkeyVars, historyVars, recVars, modelVars, cliVars>>

\* worker m: the finally block of stop_recording(); the call returns
\* temp_audio_file and `if not temp_audio_file: return`.
StopWorkerFinally(m) ==
  /\ Running
  /\ stopPc[m] = "finally"
  /\ StopFinally
  /\ IF stopRet[m] = NoFile
     THEN /\ stopPc' = [stopPc EXCEPT ![m] = "done"]
          /\ outcome' = [outcome EXCEPT ![m] = "no_artifact"]
     ELSE /\ stopPc' = [stopPc EXCEPT ![m] = "transcribe"]
          /\ UNCHANGED outcome
  /\ UNCHANGED <<stopFrames, stopRet, trPc, insertCalls, cleanupCalls, stopFrame>>
  /\ UNCHANGED <<hotkeyVars, historyVars, fileVars, modelVars, cliVars>>

\* worker m: transcribe() ensures the model is loaded; if it is not,
\* callback(None) runs _handle_transcription_result in this thread, whose
\* finally block removes the file.
StopWorkerEnsure(m) ==
  /\ Running
  /\ stopPc[m] = "transcribe"
  /\ \E loadOk \in BOOLEAN :
       /\ EnsureModelLoaded(loadOk)
       /\ IF EnsureResult(loadOk)
          THEN /\ stopPc' = [stopPc EXCEPT ![m] = "spawn"]
               /\ UNCHANGED <<outcome, fileVars>>
          ELSE /\ stopPc' = [stopPc EXCEPT ![m] = "done"]
               /\ outcome' = [outcome EXCEPT ![m] = "model_unavailable"]
               /\ files' = RemoveFile(stopRet[m])
               /\ UNCHANGED nextFile
       /\ cleanupCalls' = [cleanupCalls EXCEPT ![m] =
                             IF EnsureResult(loadOk) THEN @ ELSE @ + 1]
  /\ UNCHANGED <<stopFrames, stopRet, trPc, insertCalls, stopFrame>>
  /\ UNCHANGED <<hotkeyVars, historyVars, recVars, cliVars>>

\* The exceptions the rest of transcribe() may raise into the worker.
SpawnOutcomes == {"started", "TypeError", "RuntimeError"}

\* worker m: transcribe() checks the file and starts the transcription thread
\* (or callback(None) for a missing file); an exception of transcribe() is
\* caught by the worker, which removes the file for a TypeError only.
StopWorkerSpawn(m) ==
  /\ Running
  /\ stopPc[m] = "spawn"
  /\ stopPc' = [stopPc EXCEPT ![m] = "done"]
  /\ IF stopRet[m] \notin DOMAIN files
     THEN /\ outcome' = [outcome EXCEPT ![m] = "file_missing"]
          /\ cleanupCalls' = [cleanupCalls EXCEPT ![m] = @ + 1]
          /\ UNCHANGED <<trPc, fileVars>>
     ELSE \E how \in SpawnOutcomes :
            IF how = "started"
            THEN /\ trPc' = [trPc EXCEPT ![m] = "running"]
                 /\ UNCHANGED <<outcome, fileVars, cleanupCalls>>
            ELSE /\ outcome' = [outcome EXCEPT ![m] = "transcribe_raised"]
                 /\ files' = IF how = "TypeError" THEN RemoveFile(stopRet[m]) ELSE files
                 /\ cleanupCalls' = [cleanupCalls EXCEPT ![m] =
                                       IF how = "TypeError" THEN @ + 1 ELSE @]
                 /\ UNCHANGED <<trPc, nextFile>>
  /\ UNCHANGED <<stopFrames, stopRet, insertCalls, stopFrame>>
  /\ UNCHANGED <<hotkeyVars, historyVars, recVars, modelVars, cliVars>>

\* What self.model.transcribe may give the transcription thread.
TranscriptionResults == {"error", "empty", "text"}

\* A mutant of _handle_transcription_result: only `transcription is not None`
\* is tested before insert_text.
ShouldInsertNotNone(result) == result # "error"

\* _handle_transcription_result: insert_text is called for a result that is
\* not None and not empty.
ShouldInsert(result) == result = "text"

\* _transcribe_thread of worker m, then _handle_transcription_result in the
\* same thread: insert_text for a non-empty text, and the file removed in the
\* finally block. self.model is None (unloaded meanwhile): the exception is
\* caught and the callback gets None.
TranscribeThread(m) ==
  /\ Running
  /\ trPc[m] = "running"
  /\ trPc' = [trPc EXCEPT ![m] = "done"]
  /\ \E result \in TranscriptionResults, insertOk \in BOOLEAN :
       /\ ~model => result = "error"
       /\ result # "text" => insertOk
       /\ outcome' = [outcome EXCEPT ![m] =
            CASE result = "error" -> "transcription_failed"
              [] result = "empty" -> "empty_text"
              [] OTHER -> IF insertOk THEN "inserted" ELSE "insert_failed"]
       /\ insertCalls' = [insertCalls EXCEPT ![m] = IF ShouldInsert(result) THEN @ + 1 ELSE @]
  /\ files' = RemoveFile(stopRet[m])
  /\ cleanupCalls' = [cleanupCalls EXCEPT ![m] = @ + 1]
  /\ UNCHANGED nextFile
  /\ UNCHANGED <<stopPc, stopFrames, stopRet, stopFrame>>
  /\ UNCHANGED <<hotkeyVars, historyVars, recVars, modelVars, cliVars>>

\* The variables of the app shutdown() leaves alone.
sdFrame == <<appRecording, startPc, stopPc, stopFrames, stopRet, trPc, insertCalls, cleanupCalls,
             outcome, nStart, nStop, ignored>>

\* shutdown() is triggered (tray exit or SIGINT): self._hotkey_manager.stop().
ShutdownHotkeyStop ==
  /\ sdPc = "idle"
  /\ HotkeyStop
  /\ sdPc' = "unload"
  /\ sdIntent' = appRecording
  /\ UNCHANGED <<sdFrames, sdRet, sdFrame>>
  /\ UNCHANGED <<historyVars, recVars, fileVars, modelVars, cliVars>>

\* shutdown(): self._transcriber.unload_model()
ShutdownUnload ==
  /\ sdPc = "unload"
  /\ UnloadModel
  /\ sdPc' = "check"
  /\ UNCHANGED <<sdFrames, sdRet, sdIntent, sdFrame>>
  /\ UNCHANGED <<hotkeyVars, historyVars, recVars, fileVars, cliVars>>

\* shutdown(): `if self._recording:` read without the lock. The else branch
\* calls self._audio_recorder._cleanup(), a method AudioRecorder does not
\* define: the AttributeError leaves shutdown().
ShutdownCheck ==
  /\ sdPc = "check"
  /\ sdPc' = IF appRecording THEN "stop" ELSE "raised"
  /\ UNCHANGED <<sdFrames, sdRet, sdIntent, sdFrame>>
  /\ UNCHANGED <<hotkeyVars, historyVars, recVars, fileVars, modelVars, cliVars>>

\* shutdown(): stop_recording(), the part under the lock.
ShutdownStop ==
  /\ sdPc = "stop"
  /\ \E closeOk \in BOOLEAN :
       /\ StopLocked(closeOk)
       /\ sdFrames' = StopFramesToSave(closeOk)
       /\ sdPc' = IF recRecording /\ closeOk THEN "finalize" ELSE "finally"
  /\ UNCHANGED <<sdRet, sdIntent, sdFrame>>
  /\ UNCHANGED <<hotkeyVars, historyVars, fileVars, modelVars, cliVars>>

\* shutdown(): stop_recording() processes the frames outside the lock.
ShutdownFinalize ==
  /\ sdPc = "finalize"
  /\ \E encodeOk \in BOOLEAN :
       /\ Finalize(sdFrames, encodeOk)
       /\ sdRet' = FinalizePath(sdFrames, encodeOk)
  /\ sdPc' = "finally"
  /\ UNCHANGED <<sdFrames, sdIntent, sdFrame>>
  /\ UNCHANGED <<hotkeyVars, historyVars, recVars, modelVars, cliVars>>

\* shutdown(): the finally block of stop_recording().
ShutdownFinally ==
  /\ sdPc = "finally"
  /\ StopFinally
  /\ sdPc' = "exit"
  /\ UNCHANGED <<sdFrames, sdRet, sdIntent, sdFrame>>
  /\ UNCHANGED <<hotkeyVars, historyVars, fileVars, modelVars, cliVars>>

\* shutdown(): `if audio_file: self._cleanup_temp_file(audio_file)`, then the
\* tray is shut down, the Qt application quits and sys.exit(0) ends the
\* process with its daemon threads.
ShutdownExit ==
  /\ sdPc = "exit"
  /\ files' = IF sdRet # NoFile THEN RemoveFile(sdRet) ELSE files
  /\ UNCHANGED nextFile
  /\ sdPc' = "complete"
  /\ UNCHANGED <<sdFrames, sdRet, sdIntent, sdFrame>>
  /\ UNCHANGED <<hotkeyVars, historyVars, recVars, modelVars, cliVars>>

Init ==
  /\ InitHotkeyEngine(RecordHotkey)
  /\ InitHistory
  /\ InitRecorder
  /\ InitTranscriber
  /\ InitApp
  /\ InitClients
  /\ InitCallers

Next ==
  \/ \E raw \in AppRawKeys, ty \in {"down", "up"} : AppKeyEvent(raw, ty)
  \/ OnRecordHotkeyPress
  \/ OnRecordHotkeyRelease
  \/ \E n \in Recordings : StartWorkerCheck(n)
  \/ \E n \in Recordings : StartWorkerOpen(n)
  \/ \E n \in Recordings : StartWorkerRevert(n)
  \/ AppAudioCallback
  \/ \E m \in Recordings : StopWorkerStop(m)
  \/ \E m \in Recordings : StopWorkerFinalize(m)
  \/ \E m \in Recordings : StopWorkerFinally(m)
  \/ \E m \in Recordings : StopWorkerEnsure(m)
  \/ \E m \in Recordings : StopWorkerSpawn(m)
  \/ \E m \in Recordings : TranscribeThread(m)
  \/ ShutdownHotkeyStop
  \/ ShutdownUnload
  \/ ShutdownCheck
  \/ ShutdownStop
  \/ ShutdownFinalize
  \/ ShutdownFinally
  \/ ShutdownExit

Spec == Init /\ [][Next]_vars

(***************************************************************************)
(* Claims about the orchestrator, checked under Spec.                      *)
(***************************************************************************)

\* Start workers dispatched and not finished.
StartWorkersRunning == {n \in Recordings : startPc[n] \in {"check", "open", "revert"}}

\* Stop workers dispatched and not finished.
StopWorkersRunning == {m \in Recordings : stopPc[m] \notin {"none", "done"}}

\* Start workers whose start_recording() returned True.
StartsSucceeded == {n \in Recordings : startPc[n] = "started"}

\* C2: for every interleaving of the press and release handler threads, an
\* activate signal handled while a recording is claimed and a deactivate
\* signal handled while none is claimed change nothing, at most one start
\* worker is in flight at any time, a start worker is dispatched only while
\* no recording is claimed and no capture is active, and every stop worker
\* dispatched is matched by a capture start of its own that succeeded (never a
\* double start, never a second stop of one recording).
C2_NoDoubleStartOrStop ==
  /\ [](Cardinality(StartWorkersRunning) <= 1)
  /\ [](nStop <= Cardinality(StartsSucceeded))
  /\ [][/\ (pendingPress' < pendingPress /\ appRecording) =>
             UNCHANGED <<appRecording, nStart, startPc, nStop, stopPc, recVars>>
        /\ (pendingRelease' < pendingRelease /\ ~appRecording) =>
             UNCHANGED <<appRecording, nStart, startPc, nStop, stopPc, recVars>>
        /\ nStart' # nStart =>
             /\ ~appRecording /\ ~recRecording /\ StartWorkersRunning = {}
             /\ appRecording' /\ nStart' = nStart + 1
        /\ nStop' # nStop =>
             /\ appRecording /\ recRecording
             /\ ~appRecording' /\ nStop' = nStop + 1]_vars

\* C2 witness: two recordings were started and stopped, and along the way an
\* activate signal and a deactivate signal were ignored.
C2_Witness ==
  /\ nStart = 2
  /\ nStop = 2
  /\ ignored = {"press", "release"}

\* No start worker, no stop worker and no shutdown is in progress.
Quiescent ==
  /\ StartWorkersRunning = {}
  /\ StopWorkersRunning = {}
  /\ sdPc = "idle"

\* C3 (as claimed): in every state in which no capture-start worker and no
\* stop-pipeline worker is running, RecordingIntent equals the recorder's
\* active flag.
C3_IntentEqualsActive == Quiescent => (appRecording = recRecording)

\* C4 (as claimed): once a stop worker and its transcription thread have
\* finished, the temporary file the worker's stop_recording() produced is no
\* longer on disk, whatever path the chain took.
C4_ArtifactDeleted ==
  \A m \in Recordings :
    (stopPc[m] = "done" /\ trPc[m] # "running" /\ stopRet[m] # NoFile)
      => stopRet[m] \notin DOMAIN files

\* The pipeline failures of C5.
FailureOutcomes ==
  {"no_artifact", "model_unavailable", "transcribe_raised", "transcription_failed",
   "insert_failed"}

FailureSeen ==
  \/ \E n \in Recordings : startPc[n] = "failed"
  \/ \E m \in Recordings : outcome[m] \in FailureOutcomes

\* C5 (as claimed): after a failure in the recording pipeline the orchestrator
\* returns to Idle: once the workers have finished it is not left with
\* RecordingIntent and the capture flag disagreeing, a state in which both
\* handlers ignore every later signal.
C5_ReturnsToIdleAfterFailure ==
  (FailureSeen /\ Quiescent) => ~(appRecording /\ ~recRecording)

C7_ShutdownWhileRecording ==
  (sdIntent /\ sdPc \in {"complete", "raised"}) =>
    /\ sdPc = "complete"
    /\ stream = NoStream
    /\ openStreams = {}
    /\ ~pyaudio
    /\ ~model
    /\ DOMAIN files = {}

\* C8 (as claimed): shutdown() runs to the end of the teardown from every
\* state of the orchestrator; it never raises on the way.
C8_ShutdownNeverRaises == sdPc # "raised"

\* C9 (as claimed): when shutdown() has completed, no temporary audio file
\* exists.
C9_NoFileAfterShutdown == sdPc = "complete" => DOMAIN files = {}

(***************************************************************************)
(* Further claims about the recorder, checked under SpecRecorder.          *)
(***************************************************************************)

\* The step in which client t's start_recording returns after the device
\* could not be opened.
OpenFailed(t) ==
  /\ cliPc[t] = "start_open"
  /\ cliPc'[t] = "idle"
  /\ cliStartRet'[t] = "failed"

CallsStop(t) == cliCalls'[t] # cliCalls[t] /\ cliOp'[t] \in {"stop", "stop_idle"}

\* A step of client t's stop_recording after its locked part.
StopStep(t) == cliPc[t] \in {"stop_finalize", "stop_finally"} /\ cliPc'[t] # cliPc[t]

ChunkSamples(c) == [i \in 1 .. c |-> c]

\* b''.join(frames_to_save) read as int16 samples (np.frombuffer), which is
\* also what wf.writeframes puts into the file.
RECURSIVE JoinFrames(_)
JoinFrames(fs) ==
  IF fs = << >> THEN << >> ELSE ChunkSamples(Head(fs)) \o JoinFrames(Tail(fs))

\* The sum of the lengths of the chunks of a sequence.
RECURSIVE SumOfLengths(_)
SumOfLengths(fs) ==
  IF fs = << >> THEN 0 ELSE Len(ChunkSamples(Head(fs))) + SumOfLengths(Tail(fs))

\* C13: while a session is active its frame buffer holds exactly the chunks
\* delivered since the start, in delivery order; a stop_recording that stops
\* the session copies out exactly those chunks; and the file it then writes
\* is a new file holding exactly them, none lost or duplicated, whose sample
\* count is the sum of the lengths of the chunks fed; the file is still
\* there, unchanged, when the call returns.
C13_ArtifactHoldsFedChunks ==
  /\ [](recRecording => frames = fed)
  /\ [][\A t \in Clients :
          /\ (cliPc[t] = "idle" /\ cliPc'[t] = "stop_finalize") =>
               cliFrames'[t] = fed
          /\ (cliPc[t] = "stop_finalize" /\ cliPc'[t] = "stop_finally"
                /\ cliPath'[t] # NoFile) =>
               /\ cliPath'[t] \notin DOMAIN files
               /\ cliPath'[t] \in DOMAIN files'
               /\ files'[cliPath'[t]] = cliFrames[t]
               /\ JoinFrames(files'[cliPath'[t]]) = JoinFrames(cliFrames[t])
               /\ Len(JoinFrames(files'[cliPath'[t]])) = SumOfLengths(cliFrames[t])
               /\ \A f \in DOMAIN files : files'[f] = files[f]
          /\ (cliPc[t] = "stop_finally" /\ cliPc'[t] = "idle"
                /\ cliPath[t] # NoFile) =>
               /\ cliPath'[t] = cliPath[t]
               /\ cliPath[t] \in DOMAIN files'
               /\ files'[cliPath[t]] = cliFrames[t]]_vars

\* C13 witness: a stop_recording has returned a file that holds two chunks
\* of different lengths in the order they were fed, three samples in all.
C13_Witness ==
  \E t \in Clients :
    /\ cliPc[t] = "idle" /\ cliOp[t] = "stop"
    /\ cliPath[t] \in DOMAIN files
    /\ files[cliPath[t]] = <<2, 1>>
    /\ fed = <<2, 1>>
    /\ Len(JoinFrames(files[cliPath[t]])) = 3

\* C14: over every interleaving of the audio callback with stop_recording,
\* the frame buffer grows only in a callback that runs while the active flag
\* is true (by one chunk, at its end, answered with paContinue); a callback
\* that finds the flag false leaves the buffer alone and answers paComplete;
\* and the frames a stop_recording has copied out are changed by no later
\* step of any other thread, so the file holds exactly the copy.
C14_CallbackNeverWritesFinalizedFrames ==
  [][/\ Len(frames') > Len(frames) =>
          /\ recRecording
          /\ recRecording'
          /\ Len(frames') = Len(frames) + 1
          /\ SubSeq(frames', 1, Len(frames)) = frames
          /\ cbSignal' = "paContinue"
     /\ (cbSignal' # cbSignal /\ cbSignal' = "paComplete") =>
          /\ ~recRecording
          /\ UNCHANGED <<frames, fileVars, cliFrames>>
     /\ (cbSignal' # cbSignal /\ cbSignal' = "paContinue") =>
          /\ recRecording
          /\ Len(frames') = Len(frames) + 1
     /\ \A t \in Clients :
          /\ (cliPc[t] \in {"stop_finalize", "stop_finally"} /\ cliPc'[t] = cliPc[t]) =>
               cliFrames'[t] = cliFrames[t]
          /\ (cliPc[t] = "stop_finalize" /\ cliPc'[t] # cliPc[t] /\ cliPath'[t] # NoFile) =>
               files'[cliPath'[t]] = cliFrames'[t]]_vars

\* C14 witness: a stop_recording has cleared the flag and has not returned
\* yet, the stream is still open, and a callback that ran since found the
\* flag false: it answered paComplete and the session's frames are as fed.
C14_Witness ==
  \E t \in Clients :
    /\ cliPc[t] = "stop_finally"
    /\ cliOp[t] = "stop"
    /\ stream \in openStreams
    /\ ~recRecording
    /\ cbSignal = "paComplete"
    /\ frames # << >>
    /\ frames = fed

(***************************************************************************)
(* SpecTranscriber: two caller threads call transcribe(path, onResult) and *)
(* unload_model() on one WhisperTranscriber; onResult is any callable, it  *)
(* may raise.                                                              *)
(***************************************************************************)

\* The variables of the recorder's client threads.
recorderClientVars == <<cliPc, cliCalls, cliOp, cliStartRet, cliFrames, cliPath, cliStream>>

\* onResult is invoked once more for caller c, with arg.
Invoke(c, arg, times) ==
  /\ nCb' = [nCb EXCEPT ![c] = @ + times]
  /\ cbArg' = [cbArg EXCEPT ![c] = arg]

\* transcribe(), caller c: _ensure_model_loaded(); if it returns False,
\* callback(None) and return.
TrcEnsure(c) ==
  /\ trcPc[c] = "idle"
  /\ trcOps[c] < MaxOps
  /\ trcOps' = [trcOps EXCEPT ![c] = @ + 1]
  /\ trcOp' = [trcOp EXCEPT ![c] = "transcribe"]
  /\ \E loadOk \in BOOLEAN :
       /\ EnsureModelLoaded(loadOk)
       /\ nLoads' = nLoads + (IF AttemptsLoad THEN 1 ELSE 0)
       /\ IF EnsureResult(loadOk)
          THEN /\ trcPc' = [trcPc EXCEPT ![c] = "check"]
               /\ nCb' = [nCb EXCEPT ![c] = 0]
               /\ cbArg' = [cbArg EXCEPT ![c] = "none"]
          ELSE /\ nCb' = [nCb EXCEPT ![c] = 1]
               /\ cbArg' = [cbArg EXCEPT ![c] = "None"]
               /\ UNCHANGED trcPc
  /\ UNCHANGED <<hotkeyVars, historyVars, recVars, fileVars, appVars, recorderClientVars>>

\* How the rest of transcribe() may go: the file is missing, the thread is
\* started, or thread.start() raises.
SpawnWays == {"missing", "started", "start_raised"}

\* transcribe(), caller c: os.path.exists(audio_path), then the thread.
TrcSpawn(c) ==
  /\ trcPc[c] = "check"
  /\ \E how \in SpawnWays :
       CASE how = "missing" ->
              /\ Invoke(c, "None", 1)
              /\ trcPc' = [trcPc EXCEPT ![c] = "idle"]
         [] how = "started" ->
              /\ trcPc' = [trcPc EXCEPT ![c] = "thread"]
              /\ UNCHANGED <<nCb, cbArg>>
         [] OTHER ->
              /\ trcPc' = [trcPc EXCEPT ![c] = "idle"]
              /\ UNCHANGED <<nCb, cbArg>>
  /\ UNCHANGED <<trcOps, trcOp, nLoads>>
  /\ UNCHANGED <<hotkeyVars, historyVars, recVars, fileVars, modelVars, appVars,
                 recorderClientVars>>

\* The calls of onResult _transcribe_thread makes: callback(full_text) inside
\* the try block; for an error in the transcription, or an exception raised
\* by callback(full_text) itself, the except branch calls callback(None).
ThreadInvocations(result, cbRaises) ==
  IF result = "error" THEN 1 ELSE IF cbRaises THEN 2 ELSE 1

\* The argument of the last call of onResult _transcribe_thread makes.
ThreadLastArg(result, cbRaises) ==
  IF result = "error" \/ cbRaises THEN "None" ELSE result

\* _transcribe_thread of caller c. self.model is None (unloaded meanwhile):
\* self.model.transcribe raises and the except branch runs.
TrcThread(c) ==
  /\ trcPc[c] = "thread"
  /\ trcPc' = [trcPc EXCEPT ![c] = "idle"]
  /\ \E result \in TranscriptionResults, cbRaises \in BOOLEAN :
       /\ ~model => result = "error"
       /\ result = "error" => ~cbRaises
       /\ Invoke(c, ThreadLastArg(result, cbRaises), ThreadInvocations(result, cbRaises))
  /\ UNCHANGED <<trcOps, trcOp, nLoads>>
  /\ UNCHANGED <<hotkeyVars, historyVars, recVars, fileVars, modelVars, appVars,
                 recorderClientVars>>

\* unload_model() called by c; a new unload cycle begins.
TrcUnload(c) ==
  /\ trcPc[c] = "idle"
  /\ trcOps[c] < MaxOps
  /\ trcOps' = [trcOps EXCEPT ![c] = @ + 1]
  /\ trcOp' = [trcOp EXCEPT ![c] = "unload"]
  /\ UnloadModel
  /\ nLoads' = 0
  /\ UNCHANGED <<trcPc, nCb, cbArg>>
  /\ UNCHANGED <<hotkeyVars, historyVars, recVars, fileVars, appVars, recorderClientVars>>

InitTranscriberSpec ==
  /\ InitHotkeyEngine("alt+v")
  /\ InitHistory
  /\ InitRecorder
  /\ InitTranscriber
  /\ InitApp
  /\ InitClients
  /\ InitCallers

NextTranscriber ==
  \/ \E c \in Callers : TrcEnsure(c)
  \/ \E c \in Callers : TrcSpawn(c)
  \/ \E c \in Callers : TrcThread(c)
  \/ \E c \in Callers : TrcUnload(c)

SpecTranscriber == InitTranscriberSpec /\ [][NextTranscriber]_vars

\* The step in which caller c's transcribe() calls _ensure_model_loaded().
CallsEnsure(c) == trcOps'[c] # trcOps[c] /\ trcOp'[c] = "transcribe"

\* C15: within one unload cycle (since the last unload_model() call) the
\* construction of the model is attempted at most once, for any number and
\* interleaving of _ensure_model_loaded() calls: a call made after a failed
\* attempt returns False and attempts nothing, a call made with the model
\* loaded returns True and attempts nothing.
C15_OneLoadAttemptPerCycle ==
  /\ [](nLoads <= 1)
  /\ [][\A c \in Callers :
          /\ (CallsEnsure(c) /\ ~model /\ loadAttempted) =>
               /\ trcPc'[c] = "idle" /\ nCb'[c] = 1 /\ cbArg'[c] = "None"
               /\ UNCHANGED <<modelVars, nLoads>>
          /\ (CallsEnsure(c) /\ model) =>
               /\ trcPc'[c] = "check"
               /\ UNCHANGED <<modelVars, nLoads>>
          /\ (CallsEnsure(c) /\ nLoads' # nLoads) =>
               /\ ~model /\ ~loadAttempted /\ nLoads = 0 /\ loadAttempted']_vars

\* C15 witness: one caller has called transcribe three times in one unload
\* cycle; the load was attempted once, failed, and the last call got None.
C15_Witness ==
  \E c \in Callers :
    /\ trcOps[c] = MaxOps
    /\ trcOp[c] = "transcribe"
    /\ \A d \in Callers : d # c => trcOps[d] = 0
    /\ cbArg[c] = "None"
    /\ nLoads = 1
    /\ ~model /\ loadAttempted

\* C16 (as claimed): unload_model() resets the handle in every state it is
\* called in: as long as no load has been attempted since the last
\* unload_model() call, the model reference is None and the load-attempt
\* flag is clear, so that the next _ensure_model_loaded() attempts a load.
C16_UnloadResetsLoadAttempt ==
  nLoads = 0 => (~model /\ ~loadAttempted)

\* C17 (as claimed): every call transcribe(path, onResult) invokes onResult
\* exactly once: never twice, and once the call and its thread have ended
\* never zero times.
C17_OnResultExactlyOnce ==
  \A c \in Callers :
    /\ nCb[c] <= 1
    /\ (trcOp[c] = "transcribe" /\ trcPc[c] = "idle") => nCb[c] = 1

(***************************************************************************)
(* Further claims about the orchestrator, checked under Spec.              *)
(***************************************************************************)

\* The ways a stop pipeline ends with an empty or a None transcription result.
NoTextOutcomes == {"empty_text", "transcription_failed", "model_unavailable", "file_missing"}

\* C18: a stop pipeline whose transcription result is the empty string or
\* None makes no insert_text call and its temporary file is deleted;
\* insert_text is called only for a non-empty result and at most once per
\* recording.
C18_NoInsertForEmptyResult ==
  \A m \in Recordings :
    /\ insertCalls[m] <= 1
    /\ outcome[m] \in NoTextOutcomes =>
         /\ insertCalls[m] = 0
         /\ stopRet[m] # NoFile
         /\ stopRet[m] \notin DOMAIN files
    /\ insertCalls[m] = 1 => outcome[m] \in {"inserted", "insert_failed"}

\* C18 witness: one recording ended with an empty transcription and another
\* with a failed one; neither made an insert_text call and both files are gone.
C18_Witness ==
  \E m1, m2 \in Recordings :
    /\ outcome[m1] = "empty_text" /\ outcome[m2] = "transcription_failed"
    /\ insertCalls[m1] = 0 /\ insertCalls[m2] = 0
    /\ stopRet[m1] # NoFile /\ stopRet[m2] # NoFile
    /\ DOMAIN files = {}

(***************************************************************************)
(* A further claim about the hotkey engine, checked under SpecHotkey.      *)
(***************************************************************************)

\* Press callbacks of the combination that have started running.
PressStarted == nActivate - pendingPress

\* Release callbacks of the combination that have started running.
ReleaseStarted == nDeactivate - pendingRelease

\* C19 (as claimed): the callbacks of a combination run in the order in which
\* the edges were detected: a release callback has started only when the
\* press callback dispatched before it has started, so the release callbacks
\* started never outnumber the press callbacks started.
C19_CallbacksRunInOrder == ReleaseStarted <= PressStarted

(***************************************************************************)
(* A claim about the locks, checked under SpecRecorder.                    *)
(***************************************************************************)

\* Client t is inside start_recording, about to create PyAudio and open the
\* device stream.
OpeningDevice(t) == cliPc[t] = "start_open"

\* C20 (as claimed): no thread holds a component lock while it does blocking
\* I/O: a thread that is opening the audio device does not hold the recorder
\* lock.
C20_NoLockAcrossBlockingIO ==
  \A t \in Clients : OpeningDevice(t) => recLock # t

(***************************************************************************)
(* SpecEngine: the hotkey engine from its construction on.  One thread     *)
(* calls start(), stop(), register_hotkey(), unregister_hotkey() and       *)
(* update_record_hotkey(), one call after the other; the hook thread       *)
(* delivers key events while a subscription is installed, and an event it  *)
(* has taken is processed to the end whatever the API thread does.         *)
(***************************************************************************)

\* The (press_callback, release_callback) pairs handed to register_hotkey:
\* TRUE for a callable, FALSE for None.
CallbackPairs == {<<TRUE, TRUE>>, <<TRUE, FALSE>>}

\* Names the hook delivers in SpecEngine.
EngineRawKeys == {"ctrl", "left shift", "r", "unknown"}

\* dict.pop(h, None)
Pop(f, h) == [k \in DOMAIN f \ {h} |-> f[k]]

\* d[h] = v
Put(f, h, v) == [k \in DOMAIN f \cup {h} |-> IF k = h THEN v ELSE f[k]]

\* The API thread returns from a call.
Returns(op, arg, ret) ==
  /\ engOp' = op
  /\ engArg' = arg
  /\ engRet' = IF ret THEN "true" ELSE "false"
  /\ engPc' = "idle"

\* The API thread enters a call.
Calls == engPc = "idle" /\ engOps < MaxEngineOps /\ engOps' = engOps + 1

\* The body of register_hotkey, run under self._lock.
RegisterLocked(hotkeyStr, press, release) ==
  IF ParseRaises(hotkeyStr)
  THEN /\ hotkeyParts' = Pop(hotkeyParts, hotkeyStr)
       /\ callbacks' = Pop(callbacks, hotkeyStr)
       /\ hotkeyStates' = Pop(hotkeyStates, hotkeyStr)
  ELSE IF ParseHotkey(hotkeyStr) = {}
  THEN UNCHANGED <<hotkeyParts, callbacks, hotkeyStates>>
  ELSE /\ hotkeyParts' = Put(hotkeyParts, hotkeyStr, ParseHotkey(hotkeyStr))
       /\ callbacks' = Put(callbacks, hotkeyStr, [press |-> press, release |-> release])
       /\ hotkeyStates' = Put(hotkeyStates, hotkeyStr, FALSE)

\* What register_hotkey returns.
RegisterResult(hotkeyStr) == ~ParseRaises(hotkeyStr) /\ ParseHotkey(hotkeyStr) # {}

\* A mutant of UnregisterLocked: only the activation state is dropped, the
\* key set and the callbacks stay.
UnregisterLockedKeepsParts(hotkeyStr) ==
  IF hotkeyStr \in DOMAIN hotkeyParts
  THEN /\ hotkeyStates' = Pop(hotkeyStates, hotkeyStr)
       /\ UNCHANGED <<hotkeyParts, callbacks>>
  ELSE UNCHANGED <<hotkeyParts, callbacks, hotkeyStates>>

\* A mutant of UnregisterLocked: the activation state of the combination is
\* left behind.
UnregisterLockedKeepsState(hotkeyStr) ==
  IF hotkeyStr \in DOMAIN hotkeyParts
  THEN /\ hotkeyParts' = Pop(hotkeyParts, hotkeyStr)
       /\ callbacks' = Pop(callbacks, hotkeyStr)
       /\ UNCHANGED hotkeyStates
  ELSE UNCHANGED <<hotkeyParts, callbacks, hotkeyStates>>

\* The body of unregister_hotkey, run under self._lock.
UnregisterLocked(hotkeyStr) ==
  IF hotkeyStr \in DOMAIN hotkeyParts
  THEN /\ hotkeyParts' = Pop(hotkeyParts, hotkeyStr)
       /\ callbacks' = Pop(callbacks, hotkeyStr)
       /\ hotkeyStates' = Pop(hotkeyStates, hotkeyStr)
  ELSE UNCHANGED <<hotkeyParts, callbacks, hotkeyStates>>

\* HotkeyManager.start()
EngineStart(hookOk) ==
  /\ Calls
  /\ IF hooked
     THEN /\ Returns("start", "", TRUE)
          /\ UNCHANGED <<hooked, nHooks>>
     ELSE IF hookOk
     THEN /\ nHooks' = nHooks + 1
          /\ hooked' = TRUE
          /\ Returns("start", "", TRUE)
     ELSE /\ hooked' = FALSE
          /\ UNCHANGED nHooks
          /\ Returns("start", "", FALSE)
  /\ UNCHANGED <<callbacks, hotkeyParts, hotkeyStates, pressedKeys, pendingPress,
                 pendingRelease, inflight, recordHotkeyStr, engOld>>

\* HotkeyManager.stop() up to self._hooked = False.
EngineStopUnhook(unhookOk) ==
  /\ Calls
  /\ IF ~hooked
     THEN /\ Returns("stop", "", TRUE)
          /\ UNCHANGED <<hooked, nHooks>>
     ELSE IF unhookOk
     THEN /\ nHooks' = 0
          /\ hooked' = FALSE
          /\ engPc' = "stop_clear"
          /\ engOp' = "stop"
          /\ engArg' = ""
          /\ engRet' = "none"
     ELSE /\ Returns("stop", "", FALSE)
          /\ UNCHANGED <<hooked, nHooks>>
  /\ UNCHANGED <<callbacks, hotkeyParts, hotkeyStates, pressedKeys, pendingPress,
                 pendingRelease, inflight, recordHotkeyStr, engOld>>

\* HotkeyManager.stop(): the state is cleared under self._lock, then stop
\* returns True.
EngineStopClear ==
  /\ engPc = "stop_clear"
  /\ pressedKeys' = {}
  /\ hotkeyStates' = [h \in {} |-> FALSE]
  /\ Returns("stop", "", TRUE)
  /\ UNCHANGED <<callbacks, hotkeyParts, hooked, pendingPress, pendingRelease,
                 inflight, nHooks, recordHotkeyStr, engOld, engOps>>

\* HotkeyManager.register_hotkey(hotkey_str, press_callback, release_callback)
EngineRegister(hotkeyStr, press, release) ==
  /\ Calls
  /\ RegisterLocked(hotkeyStr, press, release)
  /\ Returns("register", hotkeyStr, RegisterResult(hotkeyStr))
  /\ UNCHANGED <<pressedKeys, hooked, pendingPress, pendingRelease,
                 inflight, nHooks, recordHotkeyStr, engOld>>

\* HotkeyManager.unregister_hotkey(hotkey_str)
EngineUnregister(hotkeyStr) ==
  /\ Calls
  /\ UnregisterLocked(hotkeyStr)
  /\ Returns("unregister", hotkeyStr, hotkeyStr \in DOMAIN hotkeyParts)
  /\ UNCHANGED <<pressedKeys, hooked, pendingPress, pendingRelease,
                 inflight, nHooks, recordHotkeyStr, engOld>>

\* update_record_hotkey(new_hotkey_str): the old string and its callbacks are
\* read; nothing more is done when the new string equals the old one.
EngineUpdateBegin(newStr) ==
  /\ Calls
  /\ engOld' = [str |-> recordHotkeyStr,
                found |-> recordHotkeyStr \in DOMAIN callbacks,
                press |-> HasPress(recordHotkeyStr),
                release |-> HasRelease(recordHotkeyStr)]
  /\ IF recordHotkeyStr = newStr
     THEN Returns("update", newStr, TRUE)
     ELSE /\ engPc' = "update_unregister"
          /\ engOp' = "update"
          /\ engArg' = newStr
          /\ engRet' = "none"
  /\ UNCHANGED <<callbacks, hotkeyParts, hotkeyStates, pressedKeys, hooked,
                 pendingPress, pendingRelease, inflight, nHooks, recordHotkeyStr>>

\* update_record_hotkey: the old combination is unregistered if it is
\* registered.
EngineUpdateUnregister ==
  /\ engPc = "update_unregister"
  /\ UnregisterLocked(engOld.str)
  /\ engPc' = "update_register"
  /\ UNCHANGED <<pressedKeys, hooked, pendingPress, pendingRelease, inflight, nHooks,
                 recordHotkeyStr, engOp, engRet, engArg, engOld, engOps>>

\* A mutant of EngineUpdateRestore: the old combination is not registered
\* again when registering the new one failed.
EngineUpdateNoRestore ==
  /\ engPc = "update_restore"
  /\ Returns("update", engArg, FALSE)
  /\ UNCHANGED <<callbacks, hotkeyParts, hotkeyStates>>
  /\ UNCHANGED <<pressedKeys, hooked, pendingPress, pendingRelease, inflight, nHooks,
                 recordHotkeyStr, engOld, engOps>>

\* update_record_hotkey: the new combination is registered with the callbacks
\* read for the old one (without callbacks when none were found); on success
\* the new string becomes the record hotkey and update returns True.
EngineUpdateRegister ==
  /\ engPc = "update_register"
  /\ RegisterLocked(engArg, engOld.found /\ engOld.press, engOld.found /\ engOld.release)
  /\ IF RegisterResult(engArg)
     THEN /\ recordHotkeyStr' = engArg
          /\ Returns("update", engArg, TRUE)
     ELSE /\ engPc' = "update_restore"
          /\ UNCHANGED <<recordHotkeyStr, engOp, engRet, engArg>>
  /\ UNCHANGED <<pressedKeys, hooked, pendingPress, pendingRelease, inflight, nHooks,
                 engOld, engOps>>

\* update_record_hotkey: registering the new combination failed; the old one
\* is registered again if callbacks were found for it, and update returns
\* False.
EngineUpdateRestore ==
  /\ engPc = "update_restore"
  /\ IF engOld.found
     THEN RegisterLocked(engOld.str, engOld.press, engOld.release)
     ELSE UNCHANGED <<callbacks, hotkeyParts, hotkeyStates>>
  /\ Returns("update", engArg, FALSE)
  /\ UNCHANGED <<pressedKeys, hooked, pendingPress, pendingRelease, inflight, nHooks,
                 recordHotkeyStr, engOld, engOps>>

\* The hook thread takes an event from the subscription and normalizes its
\* name; an unknown name ends the processing at once.
HookDelivers(raw, ty) ==
  /\ nHooks > 0
  /\ inflight = << >>
  /\ inflight' = IF KnownKey(raw) THEN <<raw, ty>> ELSE << >>
  /\ UNCHANGED <<callbacks, hotkeyParts, hotkeyStates, pressedKeys, hooked, pendingPress,
                 pendingRelease, nHooks, recordHotkeyStr, engPc, engOp, engRet, engArg,
                 engOld, engOps>>

\* The hook thread takes self._lock and processes the event it has taken.
HookProcesses ==
  /\ inflight # << >>
  /\ LockedUpdate(inflight[1], inflight[2])
  /\ inflight' = << >>
  /\ UNCHANGED <<hooked, nHooks, recordHotkeyStr, engPc, engOp, engRet, engArg,
                 engOld, engOps>>

\* The edge the event in flight makes the engine detect for h: "activate",
\* "deactivate", or none.
EdgeOf(h) ==
  LET pressed == NewPressed(inflight[1], inflight[2])
  IN IF h \in Activated(pressed) THEN "activate"
     ELSE IF h \in Deactivated(pressed) THEN "deactivate"
     ELSE "none"

\* The strings the event in flight makes the engine start a callback thread
\* for.
DispatchedBy ==
  {h \in DOMAIN hotkeyParts :
     \/ EdgeOf(h) = "activate" /\ HasPress(h)
     \/ EdgeOf(h) = "deactivate" /\ HasRelease(h)}

\* The hook thread processes the event; the history records the edges it
\* detected and the strings it dispatched a callback for.
EngineHookProcesses ==
  /\ HookProcesses
  /\ lastEdge' = [h \in HotkeyStrs |->
                    IF h \in DOMAIN hotkeyParts /\ EdgeOf(h) # "none" THEN EdgeOf(h)
                    ELSE lastEdge[h]]
  /\ dispatchedNow' = DispatchedBy
  /\ UNCHANGED <<heldNames, intervals, nActivate, nDeactivate, lastEvent, fed, cbSignal>>
  /\ UNCHANGED <<recVars, fileVars, modelVars, appVars, cliVars>>

\* The state after HotkeyManager.__init__.
InitEngine ==
  /\ callbacks = [h \in {} |-> [press |-> FALSE, release |-> FALSE]]
  /\ hotkeyParts = [h \in {} |-> {}]
  /\ hotkeyStates = [h \in {} |-> FALSE]
  /\ pressedKeys = {}
  /\ hooked = FALSE
  /\ pendingPress = 0
  /\ pendingRelease = 0
  /\ inflight = << >>
  /\ nHooks = 0
  /\ recordHotkeyStr = HotkeyCombo
  /\ engPc = "idle"
  /\ engOp = "none"
  /\ engRet = "none"
  /\ engArg = ""
  /\ engOld = [str |-> "", found |-> FALSE, press |-> FALSE, release |-> FALSE]
  /\ engOps = 0
  /\ InitHistory
  /\ InitRecorder
  /\ InitTranscriber
  /\ InitApp
  /\ InitClients
  /\ InitCallers

otherVars == <<historyVars, recVars, fileVars, modelVars, appVars, cliVars>>

NextEngine ==
  \/ \E hookOk \in BOOLEAN : EngineStart(hookOk) /\ UNCHANGED otherVars
  \/ \E unhookOk \in BOOLEAN : EngineStopUnhook(unhookOk) /\ UNCHANGED otherVars
  \/ EngineStopClear /\ UNCHANGED otherVars
  \/ \E h \in HotkeyStrs, cb \in CallbackPairs :
       EngineRegister(h, cb[1], cb[2]) /\ UNCHANGED otherVars
  \/ \E h \in HotkeyStrs : EngineUnregister(h) /\ UNCHANGED otherVars
  \/ \E h \in HotkeyStrs : EngineUpdateBegin(h) /\ UNCHANGED otherVars
  \/ EngineUpdateUnregister /\ UNCHANGED otherVars
  \/ EngineUpdateRegister /\ UNCHANGED otherVars
  \/ EngineUpdateRestore /\ UNCHANGED otherVars
  \/ \E raw \in EngineRawKeys, ty \in {"down", "up"} :
       HookDelivers(raw, ty) /\ UNCHANGED otherVars
  \/ EngineHookProcesses
  \/ HotkeyCallbackRuns

SpecEngine == InitEngine /\ [][NextEngine]_vars

(***************************************************************************)
(* Claims about the management calls of the engine, checked under          *)
(* SpecEngine.                                                             *)
(***************************************************************************)

\* The step is the API thread entering the call named op.
EngineCall(op) == engOps' = engOps + 1 /\ engOp' = op

\* C21 (as claimed): start() on an engine that is already started returns
\* false and installs no second subscription.
C21_StartWhenStartedReturnsFalse ==
  [][(EngineCall("start") /\ hooked) => (engRet' = "false" /\ nHooks' = nHooks)]_vars

\* stop() has returned True and the engine has not been started since.
StopReturned == engOp = "stop" /\ engRet = "true" /\ ~hooked

\* C22 (as claimed): once stop() has returned, the pressed-key set is empty
\* and every registration is inactive, also when a key event was being
\* processed while stop() ran.
C22_StopClearsTransientState ==
  StopReturned => (pressedKeys = {} /\ \A h \in DOMAIN hotkeyParts : ~StateOf(h))

\* The strings whose split has no key name in it: the empty string and
\* strings made of separators only.
EmptyCombos == {"", "+"}

\* Nothing is registered, unregistered or changed by the step.
RegistrationsUnchanged == UNCHANGED <<hotkeyParts, callbacks, hotkeyStates>>

\* Every stored registration has a non-empty key set and no empty key name
\* in it.
StoredKeySetsNonEmpty ==
  \A h \in DOMAIN hotkeyParts : hotkeyParts[h] # {} /\ "" \notin hotkeyParts[h]

\* C23: register_hotkey returns False and adds nothing when the string has no
\* key name in it (the empty string, separators only), and every stored
\* registration has a non-empty key set.
C23_EmptyComboIsRefused ==
  /\ []StoredKeySetsNonEmpty
  /\ [][(EngineCall("register") /\ engArg' \in EmptyCombos)
         => (engRet' = "false" /\ RegistrationsUnchanged)]_vars

\* C23 witness: register_hotkey was called with a string made of separators
\* only while another combination is registered, and returned False.
C23_Witness ==
  /\ engOp = "register" /\ engArg = "+" /\ engRet = "false"
  /\ "ctrl+x" \in DOMAIN hotkeyParts

\* The registrations other than h are what they were before the step.
OthersKept(h) ==
  /\ DOMAIN hotkeyParts' \ {h} = DOMAIN hotkeyParts \ {h}
  /\ DOMAIN callbacks' \ {h} = DOMAIN callbacks \ {h}
  /\ DOMAIN hotkeyStates' \ {h} = DOMAIN hotkeyStates \ {h}
  /\ \A k \in DOMAIN hotkeyParts \ {h} : hotkeyParts'[k] = hotkeyParts[k]
  /\ \A k \in DOMAIN callbacks \ {h} : callbacks'[k] = callbacks[k]
  /\ \A k \in DOMAIN hotkeyStates \ {h} : hotkeyStates'[k] = hotkeyStates[k]

\* C24: unregister_hotkey(id) returns False and changes nothing when id is not
\* registered; when it is registered the call returns True and removes the
\* key set, the callbacks and the activation state of that id, and of no
\* other.
C24_UnregisterRemovesOnlyThatId ==
  [][EngineCall("unregister") =>
       IF engArg' \in DOMAIN hotkeyParts
       THEN /\ engRet' = "true"
            /\ engArg' \notin DOMAIN hotkeyParts'
            /\ engArg' \notin DOMAIN callbacks'
            /\ engArg' \notin DOMAIN hotkeyStates'
            /\ OthersKept(engArg')
       ELSE /\ engRet' = "false"
            /\ RegistrationsUnchanged]_vars

\* C24 witness: one of two registered combinations was unregistered: the call
\* returned True and the other combination is still registered.
C24_Witness ==
  /\ engOp = "unregister" /\ engArg = "ctrl+x" /\ engRet = "true"
  /\ DOMAIN hotkeyParts = {"ctrl+shift+r"}

\* update_record_hotkey has returned, and the record hotkey was registered
\* when it was called.
LiveUpdateReturned == engOp = "update" /\ engPc = "idle" /\ engOld.found

\* C25: after an update of the registered recording hotkey has returned, the
\* record hotkey is the new string when the call returned True and the
\* previous one when it returned False (the new string did not register); it
\* is registered with the callbacks the previous combination had, and of the
\* previous and the new combination exactly one is registered.
C25_UpdateKeepsOneRecordHotkey ==
  LiveUpdateReturned =>
    /\ engRet = (IF RegisterResult(engArg) THEN "true" ELSE "false")
    /\ recordHotkeyStr = (IF engRet = "true" THEN engArg ELSE engOld.str)
    /\ recordHotkeyStr \in DOMAIN hotkeyParts
    /\ recordHotkeyStr \in DOMAIN callbacks
    /\ callbacks[recordHotkeyStr] = [press |-> engOld.press, release |-> engOld.release]
    /\ Cardinality({engOld.str, engArg} \cap DOMAIN hotkeyParts) = 1

\* C25 witness: the update of the registered recording hotkey to a string
\* that does not register returned False, and the previous combination is
\* registered.
C25_Witness ==
  /\ LiveUpdateReturned /\ engRet = "false" /\ engArg = "+"
  /\ engOld.str \in DOMAIN hotkeyParts

(***************************************************************************)
(* A further claim about the key events, checked under SpecHotkey.         *)
(***************************************************************************)

\* The events that leave the state of the combination as it was.
NoChangeKinds == {"unknown", "repeat", "stray", "outside"}

\* No callback of the combination is dispatched by the step.
NothingDispatched ==
  /\ nActivate' = nActivate
  /\ nDeactivate' = nDeactivate
  /\ pendingPress' <= pendingPress
  /\ pendingRelease' <= pendingRelease

\* C26: no callback is dispatched by an event that leaves the combination's
\* state as it was: a key-down for a key already in the pressed set, a key-up
\* for a key not in it, an event on a key outside the combination, and more
\* generally every event after which the combination is held exactly when it
\* was held before.
C26_NoDispatchWithoutStateChange ==
  [][(\/ lastEvent' \in NoChangeKinds
      \/ (ComboKeys \subseteq pressedKeys') = (ComboKeys \subseteq pressedKeys))
       => NothingDispatched]_vars

\* C26 witness: the combination is active, its press callback was dispatched
\* once, and the event delivered last was a repeated key-down of one of its
\* keys.
C26_Witness ==
  /\ lastEvent = "repeat"
  /\ ComboKeys \subseteq pressedKeys
  /\ StateOf(HotkeyCombo)
  /\ nActivate = 1 /\ nDeactivate = 0

(***************************************************************************)
(* Further claims about the application, checked under Spec.               *)
(***************************************************************************)

\* The step is the hook thread processing a key event: the subscription is
\* installed before and after it, and the pressed set changes or a callback
\* thread is started.
HookThreadStep ==
  /\ hooked /\ hooked'
  /\ \/ pressedKeys' # pressedKeys
     \/ pendingPress' > pendingPress
     \/ pendingRelease' > pendingRelease

\* The step is a callback thread running a handler of the application.
HandlerStep == pendingPress' < pendingPress \/ pendingRelease' < pendingRelease

\* C27: the hook thread only updates the engine's state and starts callback
\* threads: a step in which it processes a key event changes nothing of the
\* application, the recorder, the files or the model; and a handler, run on
\* its callback thread, only claims the state and dispatches a worker, so
\* the capture start and stop pipelines run on neither of the two.
C27_HookThreadOnlyDispatches ==
  [][/\ HookThreadStep => UNCHANGED <<appVars, recVars, fileVars, modelVars>>
     /\ HandlerStep => UNCHANGED <<recVars, fileVars, modelVars>>]_vars

\* C27 witness: a start worker is opening the device, holding the recorder
\* lock, and the hook thread has meanwhile processed the release of the
\* combination: the release callback's thread has been started.
C27_Witness ==
  /\ \E m \in Recordings : startPc[m] = "open"
  /\ recLock # NoThread
  /\ pendingRelease > 0
  /\ ~StateOf(RecordHotkey)

(***************************************************************************)
(* Further claims about the recorder, checked under SpecRecorder.          *)
(***************************************************************************)

\* The step is client t returning from a stop_recording that found a session
\* active.
StopReturns(t) == cliPc[t] = "stop_finally" /\ cliPc'[t] = "idle" /\ cliOp[t] = "stop"

\* C28 (as claimed): a session started while an earlier stop_recording is
\* finalizing is not affected by that stop: when the earlier stop returns,
\* the new session is still active, its stream is open and its frames are
\* retained.
C28_EarlierStopLeavesNewSession ==
  [][\A t \in Clients :
       (StopReturns(t) /\ recRecording)
         => (recRecording' /\ stream' = stream /\ openStreams' = openStreams
             /\ frames' = frames)]_vars

\* C29 (as claimed): whenever a stop_recording that found a session active
\* returns (with an artifact, with no frames, or after an error while closing
\* or encoding), the recording flag is false, the recorder holds no stream
\* and no audio-subsystem handle, and the stream of that session is closed.
C29_StopReleasesSession ==
  [][\A t \in Clients :
       StopReturns(t) =>
         /\ ~recRecording'
         /\ stream' = NoStream
         /\ ~pyaudio'
         /\ cliStream[t] \notin openStreams']_vars

\* C30: each artifact is released at most once and by its own pipeline only:
\* _cleanup_temp_file is called at most once with the path of a recording
\* (the exception path of the stop worker and the transcription-result
\* handler never both delete it), two recordings never share a path, and a
\* step that removes a file is the cleanup of the recording the file belongs
\* to or the shutdown removing the file of its own stop_recording.
C30_ArtifactReleasedOnceByItsPipeline ==
  /\ [](\A m \in Recordings : cleanupCalls[m] <= 1)
  /\ [](\A m1, m2 \in Recordings :
          (m1 # m2 /\ stopRet[m1] # NoFile) => stopRet[m1] # stopRet[m2])
  /\ [][\A f \in DOMAIN files \ DOMAIN files' :
          \/ \E m \in Recordings :
               /\ stopRet[m] = f
               /\ cleanupCalls'[m] = cleanupCalls[m] + 1
               /\ \A k \in Recordings \ {m} : cleanupCalls'[k] = cleanupCalls[k]
          \/ f = sdRet /\ sdPc' # sdPc]_vars

\* C30 witness: two recordings produced an artifact each; the first was
\* removed by the exception path of its stop worker, the second by the
\* transcription-result handler, each exactly once.
C30_Witness ==
  /\ stopRet[1] # NoFile /\ stopRet[2] # NoFile
  /\ outcome[1] = "transcribe_raised" /\ trPc[1] = "none"
  /\ trPc[2] = "done"
  /\ cleanupCalls = [m \in Recordings |-> 1]
  /\ DOMAIN files = {}

(***************************************************************************)
(* Claims about interleavings of the application, checked under Spec.      *)
(***************************************************************************)

\* The step is the transcription thread of worker m calling
\* self.model.transcribe.
UsesModel(m) == trPc[m] = "running" /\ trPc'[m] = "done"

\* C31 (as claimed): whenever the transcription thread dereferences the model
\* handle, the model is loaded, for every interleaving with unload_model().
C31_ModelLoadedWhenUsed ==
  [][\A m \in Recordings : UsesModel(m) => model]_vars

(***************************************************************************)
(* Claims about the signals of the engine, checked under SpecEngine.       *)
(***************************************************************************)

\* The step is the hook thread processing the event it has taken.
HookStep == inflight # << >> /\ inflight' = << >>

\* C32 (as claimed): for each hotkey string the signals alternate, starting
\* with activate, over key events interleaved with register_hotkey (also of a
\* string that is registered while its keys are held), unregister_hotkey,
\* update_record_hotkey, stop() and start(): an activate is never detected
\* when the signal before it was an activate, and a deactivate only when the
\* signal before it was an activate.
C32_SignalsAlternate ==
  [][HookStep =>
       \A h \in DOMAIN hotkeyParts :
         /\ EdgeOf(h) = "activate" => lastEdge[h] # "activate"
         /\ EdgeOf(h) = "deactivate" => lastEdge[h] = "activate"]_vars

\* C36 (as claimed): between the locked blocks of the engine, the stored state
\* of every registration equals 'its key set is a subset of the pressed set',
\* after any sequence of key events, register_hotkey (also of a combination
\* whose keys are held), unregister_hotkey, stop() and start().
C36_StateEqualsSubset ==
  \A h \in DOMAIN hotkeyParts : StateOf(h) = (hotkeyParts[h] \subseteq pressedKeys)

\* The call made last is an unregister_hotkey that returned True.
Unregistered(h) ==
  engOp = "unregister" /\ engArg = h /\ engRet = "true" /\ engPc = "idle"

\* C37: once unregister_hotkey(id) has returned True, no key event processed
\* before the next call of the API starts a callback thread for that id, also
\* when the combination was active when it was unregistered.
C37_NoDispatchAfterUnregister ==
  [][\A h \in HotkeyStrs :
       (HookStep /\ Unregistered(h)) => h \notin dispatchedNow']_vars

\* C37 witness: the combination was registered, activated and unregistered
\* while active (three calls: start, register, unregister), and the release
\* of one of its keys was processed after that: no deactivate was detected.
C37_Witness ==
  /\ Unregistered("ctrl+shift+r")
  /\ engOps = 3
  /\ lastEdge["ctrl+shift+r"] = "activate"
  /\ pressedKeys = {"ctrl", "shift"}
  /\ inflight = << >>
  /\ pendingRelease = 0

(***************************************************************************)
(* A claim about the interleavings of the workers, checked under Spec.     *)
(***************************************************************************)

\* The hotkey is not held, no callback thread of the engine is waiting to
\* run, and no worker and no shutdown is in progress: only a further key
\* event can make the application act again.
Settled ==
  /\ ~(ParseHotkey(RecordHotkey) \subseteq pressedKeys)
  /\ ~StateOf(RecordHotkey)
  /\ pendingPress = 0
  /\ pendingRelease = 0
  /\ Quiescent

\* C33 (as claimed): when the hotkey is no longer held and no further key
\* event arrives, the system ends with the capture engine inactive and
\* RecordingIntent false, for every interleaving of the handlers and the
\* workers: in every state in which all of them have run to their end, the
\* recorder is not recording and the intent flag is false.
C33_SettlesIdle == Settled => (~recRecording /\ ~appRecording)

(***************************************************************************)
(* SpecStopCallback: the recorder with the audio thread's callback in two  *)
(* steps (invoked, waiting for the recorder lock; then its body under the  *)
(* lock) and the locked block of stop_recording in two steps (the lock     *)
(* taken and the flag cleared; then the stream stopped and closed).  The   *)
(* audio subsystem's stop/close-stream call returns only when no callback  *)
(* is in flight.  cbSignal is "waiting" while a callback is in flight.     *)
(***************************************************************************)

\* The audio subsystem invokes _audio_callback for the open stream; the
\* callback waits for the recorder lock.
AudioThreadEnters ==
  /\ stream \in openStreams
  /\ cbSignal # "waiting"
  /\ cbSignal' = "waiting"
  /\ UNCHANGED <<heldNames, intervals, nActivate, nDeactivate, lastEvent, lastEdge,
                 dispatchedNow, fed>>
  /\ UNCHANGED <<hotkeyVars, recVars, fileVars, modelVars, appVars, cliVars>>

\* The callback gets the lock, runs its body and returns.
AudioThreadRuns ==
  /\ cbSignal = "waiting"
  /\ \E chunk \in Chunks :
       /\ AudioCallback(chunk)
       /\ fed' = IF recRecording THEN Append(fed, chunk) ELSE fed
  /\ cbSignal' = CallbackReturn
  /\ UNCHANGED <<heldNames, intervals, nActivate, nDeactivate, lastEvent, lastEdge,
                 dispatchedNow>>
  /\ UNCHANGED <<hotkeyVars, fileVars, modelVars, appVars, cliVars>>

\* start_recording by t, the try block; a callback in flight stays in flight.
SessionStartOpen(t) ==
  /\ cliPc[t] = "start_open"
  /\ \E openOk \in BOOLEAN :
       /\ StartOpen(t, openOk)
       /\ cliStartRet' = [cliStartRet EXCEPT ![t] = IF openOk THEN "true" ELSE "failed"]
       /\ fed' = IF openOk THEN << >> ELSE fed
  /\ cliPc' = [cliPc EXCEPT ![t] = "idle"]
  /\ UNCHANGED <<cliCalls, cliOp, cliFrames, cliPath, cliStream, callerVars>>
  /\ UNCHANGED <<heldNames, intervals, nActivate, nDeactivate, lastEvent, lastEdge,
                 dispatchedNow, cbSignal>>
  /\ UNCHANGED <<hotkeyVars, fileVars, modelVars, appVars>>

\* stop_recording called by t: the lock is taken; not recording, the call
\* goes to its finally block; recording, the flag is cleared and the lock is
\* kept for stopping the stream.
StopEnters(t) ==
  /\ cliPc[t] = "idle"
  /\ cliCalls[t] < MaxCalls
  /\ recLock = NoThread
  /\ cliCalls' = [cliCalls EXCEPT ![t] = @ + 1]
  /\ cliPath' = [cliPath EXCEPT ![t] = NoFile]
  /\ IF ~recRecording
     THEN /\ cliOp' = [cliOp EXCEPT ![t] = "stop_idle"]
          /\ cliPc' = [cliPc EXCEPT ![t] = "stop_finally"]
          /\ cliFrames' = [cliFrames EXCEPT ![t] = << >>]
          /\ cliStream' = [cliStream EXCEPT ![t] = NoStream]
          /\ UNCHANGED recVars
     ELSE /\ cliOp' = [cliOp EXCEPT ![t] = "stop"]
          /\ cliPc' = [cliPc EXCEPT ![t] = "stop_closing"]
          /\ cliStream' = [cliStream EXCEPT ![t] = stream]
          /\ recLock' = t
          /\ recRecording' = FALSE
          /\ UNCHANGED <<cliFrames, stream, pyaudio, frames, nextStream, openStreams>>
  /\ UNCHANGED <<cliStartRet, callerVars>>
  /\ UNCHANGED <<hotkeyVars, historyVars, fileVars, modelVars, appVars>>

\* stop_recording by t, still under the lock: stop_stream() and close()
\* return once no callback is in flight; the frames are copied out and the
\* lock is released. closeOk = FALSE: the call raises and the handle stays.
StopCloses(t) ==
  /\ cliPc[t] = "stop_closing"
  /\ recLock = t
  /\ cbSignal # "waiting"
  /\ \E closeOk \in BOOLEAN :
       IF closeOk
       THEN /\ stream' = NoStream
            /\ openStreams' = openStreams \ {stream}
            /\ cliFrames' = [cliFrames EXCEPT ![t] = frames]
            /\ frames' = << >>
            /\ cliPc' = [cliPc EXCEPT ![t] = "stop_finalize"]
       ELSE /\ cliFrames' = [cliFrames EXCEPT ![t] = << >>]
            /\ cliPc' = [cliPc EXCEPT ![t] = "stop_finally"]
            /\ UNCHANGED <<stream, openStreams, frames>>
  /\ recLock' = NoThread
  /\ UNCHANGED <<recRecording, pyaudio, nextStream>>
  /\ UNCHANGED <<cliCalls, cliOp, cliStartRet, cliPath, cliStream, callerVars>>
  /\ UNCHANGED <<hotkeyVars, historyVars, fileVars, modelVars, appVars>>

NextStopCallback ==
  \/ \E t \in Clients : ClientStartCheck(t)
  \/ \E t \in Clients : SessionStartOpen(t)
  \/ \E t \in Clients : StopEnters(t)
  \/ \E t \in Clients : StopCloses(t)
  \/ \E t \in Clients : ClientFinalize(t)
  \/ \E t \in Clients : ClientStopFinally(t)
  \/ AudioThreadEnters
  \/ AudioThreadRuns

SpecStopCallback == InitRecorderSpec /\ [][NextStopCallback]_vars

\* C34 (as claimed): stop_recording cannot deadlock against the audio
\* callback: there is no state in which a stop_recording holds the recorder
\* lock waiting for the stream to stop while a callback in flight waits for
\* that lock.
C34_StopNeverBlocksOnCallback ==
  \A t \in Clients :
    ~(cliPc[t] = "stop_closing" /\ recLock = t /\ cbSignal = "waiting")

(***************************************************************************)
(* A claim about the recorder's fields, checked under SpecRecorder.        *)
(***************************************************************************)

\* The recorder holds the handle of a stream that is open.
HoldsOpenStream == stream # NoStream /\ stream \in openStreams

\* C35 (as claimed): whenever no thread holds the recorder lock, the
\* recording flag is true exactly when the recorder holds an open stream; at
\* most one device stream is open at any time; and start_recording never
\* replaces the handle of a stream that is still open.
C35_FlagIffOpenStream ==
  /\ [](recLock = NoThread => (recRecording <=> HoldsOpenStream))
  /\ [](Cardinality(openStreams) <= 1)
  /\ [][(stream' # stream /\ stream' # NoStream) => ~HoldsOpenStream]_vars

(***************************************************************************)
(* SpecSettings: two threads call set(), save() and reset() of the         *)
(* Settings instance.  Settings._lock is a threading.Lock: it is acquired  *)
(* only when no thread holds it, the holder included.                      *)
(***************************************************************************)

\* The values set("hotkey.record", value) is called with.
SettingsValues == {"alt+v", "ctrl+x", "ctrl+shift+r"}

settingsFrame == <<hotkeyVars, historyVars, recVars, fileVars, model, loadAttempted,
                   appVars, cliVars>>

\* Thread t enters a call of the Settings API.
SettingsCall(t) ==
  /\ setPc[t] = "idle"
  /\ setOps[t] < MaxSettingsOps
  /\ setOps' = [setOps EXCEPT ![t] = @ + 1]

\* Settings.set("hotkey.record", value): the nested dictionary is updated in
\* place under the lock; it is the dictionary DEFAULT_SETTINGS holds as long
\* as no reset has replaced it.
SettingsSet(t, value) ==
  /\ SettingsCall(t)
  /\ settingsLock = NoThread
  /\ settingsVal' = value
  /\ settingsDefault' = value
  /\ UNCHANGED <<settingsLock, settingsFile, setPc>>
  /\ UNCHANGED settingsFrame

\* What save() does once it has the lock: the settings are written to the
\* file; writeOk = FALSE: open or json.dump raises, save returns False.
SaveLocked(writeOk) ==
  settingsFile' = IF writeOk THEN settingsVal ELSE settingsFile

\* Settings.save() run by t, called from outside the class or by the reset()
\* t is inside: `with self._lock` is entered when no thread holds the lock;
\* the file is written and save returns (and reset after it).
SettingsSave(t, writeOk) ==
  /\ settingsLock = NoThread
  /\ SaveLocked(writeOk)
  /\ IF setPc[t] = "reset_save"
     THEN /\ setPc' = [setPc EXCEPT ![t] = "idle"]
          /\ UNCHANGED setOps
     ELSE /\ SettingsCall(t)
          /\ UNCHANGED setPc
  /\ UNCHANGED <<settingsLock, settingsVal, settingsDefault>>
  /\ UNCHANGED settingsFrame

\* Settings.reset() called by t: the lock is taken and the settings are
\* replaced by DEFAULT_SETTINGS.copy(); save() is called next.
SettingsResetEnters(t) ==
  /\ SettingsCall(t)
  /\ settingsLock = NoThread
  /\ settingsLock' = t
  /\ settingsVal' = settingsDefault
  /\ setPc' = [setPc EXCEPT ![t] = "reset_save"]
  /\ UNCHANGED <<settingsDefault, settingsFile>>
  /\ UNCHANGED settingsFrame

NextSettings ==
  \/ \E t \in SettingsThreads, value \in SettingsValues : SettingsSet(t, value)
  \/ \E t \in SettingsThreads, writeOk \in BOOLEAN : SettingsSave(t, writeOk)
  \/ \E t \in SettingsThreads : SettingsResetEnters(t)

SpecSettings == InitRecorderSpec /\ [][NextSettings]_vars

\* C38 (as claimed): reset() terminates: the save() it calls can acquire the
\* settings lock, that is, a thread that is about to enter save() from
\* reset() does not itself hold the lock save() waits for.
C38_ResetSaveCanLock ==
  \A t \in SettingsThreads : setPc[t] = "reset_save" => settingsLock # t

=============================================================================
